---- MODULE Spec2Model ----
(***************************************************************************)
(* A model of the page pagination and element addressing core of the       *)
(* browser agent: PageParser (parser/page_parser.py), BrowserManager       *)
(* (parser/browser_manager.py), the tool wrappers of                       *)
(* agent/tools_config.py with the action tools under tools/, and the task  *)
(* loop of CLIInterface.process_message (cli/interface.py) around the      *)
(* agent graph (agent/graph.py).                                           *)
(*                                                                         *)
(* Strings that the code cuts or trims are sequences of one-character      *)
(* strings. An optional value is a sequence: <<>> for None, <<x>> for x.   *)
(* Pixel coordinates are integers; bounding boxes have even sizes so the   *)
(* center y + height / 2 is the integer y + height \div 2.                 *)
(***************************************************************************)
EXTENDS Integers, Sequences, FiniteSets, TLC

VARIABLES
    cfg,                      \* config.text_chunk_size / links_chunk_size / parse_item_size
    page_url,                 \* the live page: page.url
    dom,                      \* the live page: title, body text, elements, links, scrollHeight
    text_items,               \* BrowserManager._text_items
    current_text_index,       \* BrowserManager._current_text_index
    last_text_parsed_url,     \* BrowserManager._last_text_parsed_url
    buttons_items,            \* BrowserManager._buttons_items
    current_buttons_index,    \* BrowserManager._current_buttons_index
    last_buttons_parsed_url,  \* BrowserManager._last_buttons_parsed_url
    links_items,              \* BrowserManager._links_items
    current_links_index,      \* BrowserManager._current_links_index
    last_links_parsed_url,    \* BrowserManager._last_links_parsed_url
    buttons_internal,         \* BrowserManager._buttons_internal (id -> ButtonInternal)
    inputs_internal,          \* BrowserManager._inputs_internal (id -> InputInternal)
    result,                   \* what the last tool call returned or raised
    served,                   \* history: per kind, what get-next returned since the last reset or URL change
    retired,                  \* history: ids that were in the registry when reset_buttons_items dropped it
    task                      \* CLIInterface.process_message: its locals, the session, where the graph is

vars == <<cfg, page_url, dom,
          text_items, current_text_index, last_text_parsed_url,
          buttons_items, current_buttons_index, last_buttons_parsed_url,
          links_items, current_links_index, last_links_parsed_url,
          buttons_internal, inputs_internal, result, served, retired, task>>

----------------------------------------------------------------------------
(* Bounds of the model *)

\* largest chunk size and band height of the generated configurations
MaxChunk == 3
\* longest body text of the generated pages
MaxTextLen == 4
\* largest center Y of an element of the generated pages
MaxCenterY == 4
\* largest id the decision maker passes to click_button / type_text / fill_input
MaxIdArg == 2
\* config.agent_max_steps of the modelled configuration (config.py sets 50)
MaxSteps == 2
\* most links of the generated pages
MaxLinks == 3

----------------------------------------------------------------------------
(* Values *)

NoUrl == "None"
NoItem == <<>>
Some(x) == <<x>>

Max(a, b) == IF a >= b THEN a ELSE b
Min(a, b) == IF a <= b THEN a ELSE b
CeilDiv(a, b) == (a + b - 1) \div b
Range(s) == {s[i] : i \in 1..Len(s)}

RECURSIVE Flatten(_)
Flatten(ss) == IF ss = <<>> THEN <<>> ELSE Head(ss) \o Flatten(Tail(ss))

SliceSkipsFirst(s, i, j) == SubSeq(s, i + 2, Min(j, Len(s)))

\* Python s[i:j] for 0 <= i <= j
Slice(s, i, j) == SubSeq(s, i + 1, Min(j, Len(s)))

IsSpace(c) == c \in {" ", "\n", "\t"}

RECURSIVE LStrip(_)
LStrip(s) == IF s # <<>> /\ IsSpace(Head(s)) THEN LStrip(Tail(s)) ELSE s

RECURSIVE RStrip(_)
RStrip(s) == IF s # <<>> /\ IsSpace(s[Len(s)]) THEN RStrip(SubSeq(s, 1, Len(s) - 1)) ELSE s

\* Python str.strip()
Strip(s) == RStrip(LStrip(s))

\* Python range(0, n, step) for step > 0, as the sequence of its values
RECURSIVE RangeFrom(_, _, _)
RangeFrom(i, n, step) == IF i < n THEN <<i>> \o RangeFrom(i + step, n, step) ELSE <<>>

RangeStepMissingTail(n, step) == RangeFrom(0, n - step + 1, step)

RangeStep(n, step) == RangeFrom(0, n, step)

----------------------------------------------------------------------------
(* The live page, as the driver shows it *)

ButtonSelectors == <<"button", "[role=button]", "input[type=submit]", "input[type=button]">>

InputSelectors == <<"input[type=text]", "input[type=email]", "input[type=password]",
                    "input[type=search]", "input[type=tel]", "input[type=url]",
                    "input:not([type])", "textarea">>

\* whether element e matches CSS selector sel
Matches(e, sel) ==
    CASE sel = "button"             -> e.tag = "button"
      [] sel = "[role=button]"      -> e.role = "button"
      [] sel = "input[type=submit]" -> e.tag = "input" /\ e.type = Some("submit")
      [] sel = "input[type=button]" -> e.tag = "input" /\ e.type = Some("button")
      [] sel = "input[type=text]"   -> e.tag = "input" /\ e.type = Some("text")
      [] sel = "input[type=email]"  -> e.tag = "input" /\ e.type = Some("email")
      [] sel = "input[type=password]" -> e.tag = "input" /\ e.type = Some("password")
      [] sel = "input[type=search]" -> e.tag = "input" /\ e.type = Some("search")
      [] sel = "input[type=tel]"    -> e.tag = "input" /\ e.type = Some("tel")
      [] sel = "input[type=url]"    -> e.tag = "input" /\ e.type = Some("url")
      [] sel = "input:not([type])"  -> e.tag = "input" /\ e.type = <<>>
      [] sel = "textarea"           -> e.tag = "textarea"
      [] OTHER                      -> FALSE

\* page.query_selector_all(sel): the matching elements in document order
QuerySelectorAll(d, sel) == SelectSeq(d.elems, LAMBDA e : Matches(e, sel))

Box(x, y, w, h) == [x |-> x, y |-> y, width |-> w, height |-> h]

\* the read of an element that raises (stale handle, detached node); NoErr: none
NoErr == ""
Reads == {"is_visible", "text_content", "get_attribute", "bounding_box", "parentElement"}

\* an element of the page; box is <<>> when bounding_box() returns None,
\* err names the read of the element that raises
Element(tag, role, type, vis, box, text, value) ==
    [tag |-> tag, role |-> role, type |-> type, vis |-> vis, box |-> box,
     text |-> text, value |-> value, name |-> <<"n">>, placeholder |-> <<>>,
     parent |-> Some(<<" ", "p", " ">>), err |-> NoErr]

\* a visible <button> / <input type=text> whose center is at height y
ButtonAt(y) == Element("button", "", <<>>, TRUE, Some(Box(0, y - 1, 4, 2)), <<" ", "O", "K">>, <<>>)
InputAt(y)  == Element("input", "", Some("text"), TRUE, Some(Box(0, y - 1, 4, 2)), <<>>, <<>>)

\* an <a href> of the page
Anchor(text, href, vis) ==
    [text |-> text, aria |-> <<>>, href |-> href, vis |-> vis,
     parent |-> Some(<<"p">>), err |-> NoErr]

PageDom(title, text, elems, links, scrollHeight) ==
    [title |-> title, text |-> text, elems |-> elems, links |-> links,
     scrollHeight |-> scrollHeight, body_ok |-> TRUE]

----------------------------------------------------------------------------
(* PageParser: extraction *)

\* truncation bounds of extract_buttons / extract_links and _get_parent_text
TextLimit == 100
ParentTextLimit == 200

\* box center: (box['x'] + box['width'] / 2, box['y'] + box['height'] / 2)
Center(box) == <<box.x + box.width \div 2, box.y + box.height \div 2>>

\* the Y coordinate of a position tuple: position[1] in Python
PosY(position) == position[2]

NextCounterStuck(counter) == counter

\* PageParser._generate_element_id: the counter after an id was issued
NextCounter(counter) == counter + 1

\* PageParser.get_visible_text
get_visible_text(d) == IF d.body_ok THEN Strip(d.text) ELSE <<>>

\* PageParser._get_parent_text
get_parent_text(e) ==
    IF e.err = "parentElement" \/ e.parent = <<>> \/ e.parent[1] = <<>>
    THEN <<>>
    ELSE Some(Slice(Strip(e.parent[1]), 0, ParentTextLimit))

\* the reads of one element in extract_buttons; <<>> when the element is skipped
ReadButton(e) ==
    IF \/ e.err = "is_visible" \/ ~e.vis
       \/ e.err = "text_content" \/ (e.text = <<>> /\ e.err = "get_attribute")
       \/ e.err = "bounding_box" \/ e.box = <<>>
    THEN <<>>
    ELSE Some([text |-> Slice(Strip(IF e.text # <<>> THEN e.text ELSE e.value), 0, TextLimit),
               position |-> Center(e.box[1]),
               parent_text |-> get_parent_text(e)])

\* the reads of one element in extract_inputs; <<>> when the element is skipped
ReadInput(e, selector) ==
    IF \/ e.err = "is_visible" \/ ~e.vis
       \/ e.err = "get_attribute"
       \/ e.err = "bounding_box" \/ e.box = <<>>
    THEN <<>>
    ELSE Some([input_type |-> IF selector = "textarea" THEN "textarea"
                              ELSE IF e.type = <<>> THEN "text" ELSE e.type[1],
               name |-> e.name,
               placeholder |-> e.placeholder,
               position |-> Center(e.box[1]),
               parent_text |-> get_parent_text(e)])

\* ButtonInternal and Button built from one read; the locator is page.locator(selector).nth(idx)
ButtonInternalOf(id, selector, idx, r) ==
    [id |-> id, element |-> [selector |-> selector, nth |-> idx],
     text |-> r.text, position |-> r.position, parent_text |-> r.parent_text]

ButtonOf(id, r) ==
    [id |-> id, text |-> r.text, position |-> r.position, parent_text |-> r.parent_text]

InputInternalOf(id, selector, idx, r) ==
    [id |-> id, element |-> [selector |-> selector, nth |-> idx],
     input_type |-> r.input_type, name |-> r.name, placeholder |-> r.placeholder,
     position |-> r.position, parent_text |-> r.parent_text]

InputOf(id, r) ==
    [id |-> id, input_type |-> r.input_type, name |-> r.name, placeholder |-> r.placeholder,
     position |-> r.position, parent_text |-> r.parent_text]

RECURSIVE ExtractButtonsFromIdFirst(_, _, _, _)
ExtractButtonsFromIdFirst(elements, selector, idx, acc) ==
    IF idx >= Len(elements) THEN acc
    ELSE LET r == ReadButton(elements[idx + 1]) IN
         ExtractButtonsFromIdFirst(elements, selector, idx + 1,
            [internal |-> IF r = <<>> THEN acc.internal
                          ELSE Append(acc.internal, ButtonInternalOf(acc.counter, selector, idx, r[1])),
             external |-> IF r = <<>> THEN acc.external
                          ELSE Append(acc.external, ButtonOf(acc.counter, r[1])),
             counter  |-> NextCounter(acc.counter)])

\* extract_buttons, inner loop: for idx, element in enumerate(elements), from idx on
RECURSIVE ExtractButtonsFrom(_, _, _, _)
ExtractButtonsFrom(elements, selector, idx, acc) ==
    IF idx >= Len(elements) THEN acc
    ELSE LET r == ReadButton(elements[idx + 1]) IN
         IF r = <<>> THEN ExtractButtonsFrom(elements, selector, idx + 1, acc)
         ELSE ExtractButtonsFrom(elements, selector, idx + 1,
                [internal |-> Append(acc.internal, ButtonInternalOf(acc.counter, selector, idx, r[1])),
                 external |-> Append(acc.external, ButtonOf(acc.counter, r[1])),
                 counter  |-> NextCounter(acc.counter)])

\* extract_buttons, outer loop: for selector in selectors, from the s-th on
RECURSIVE ExtractButtonsSel(_, _, _)
ExtractButtonsSel(d, s, acc) ==
    IF s > Len(ButtonSelectors) THEN acc
    ELSE ExtractButtonsSel(d, s + 1,
            ExtractButtonsFrom(QuerySelectorAll(d, ButtonSelectors[s]), ButtonSelectors[s], 0, acc))

\* PageParser.extract_buttons, with the parser's id counter threaded through
extract_buttons(d, counter) ==
    ExtractButtonsSel(d, 1, [internal |-> <<>>, external |-> <<>>, counter |-> counter])

RECURSIVE ExtractInputsFrom(_, _, _, _)
ExtractInputsFrom(elements, selector, idx, acc) ==
    IF idx >= Len(elements) THEN acc
    ELSE LET r == ReadInput(elements[idx + 1], selector) IN
         IF r = <<>> THEN ExtractInputsFrom(elements, selector, idx + 1, acc)
         ELSE ExtractInputsFrom(elements, selector, idx + 1,
                [internal |-> Append(acc.internal, InputInternalOf(acc.counter, selector, idx, r[1])),
                 external |-> Append(acc.external, InputOf(acc.counter, r[1])),
                 counter  |-> NextCounter(acc.counter)])

RECURSIVE ExtractInputsSel(_, _, _)
ExtractInputsSel(d, s, acc) ==
    IF s > Len(InputSelectors) THEN acc
    ELSE ExtractInputsSel(d, s + 1,
            ExtractInputsFrom(QuerySelectorAll(d, InputSelectors[s]), InputSelectors[s], 0, acc))

\* PageParser.extract_inputs
extract_inputs(d, counter) ==
    ExtractInputsSel(d, 1, [internal |-> <<>>, external |-> <<>>, counter |-> counter])

\* models/link.py: the fields of Link
LinkFields == {"text", "position", "url", "parent_text", "selector"}

\* models/link.py: the fields of Link declared with Field(...), which are required
LinkRequired == {"text", "position", "url", "selector"}

\* Link(**given): <<>> when pydantic raises ValidationError for a missing required field
NewLink(given) == IF LinkRequired \subseteq DOMAIN given THEN Some(given) ELSE <<>>

\* new URL(href, window.location.href).href
ResolveHref(href, base) == IF href.absolute THEN <<href.path>> ELSE <<base, href.path>>

\* the body of the loop of extract_links for one element; <<>> when it is skipped
ReadLink(a, base) ==
    IF \/ a.err = "is_visible" \/ ~a.vis
       \/ a.err \in {"text_content", "get_attribute"} \/ a.href = <<>>
    THEN <<>>
    ELSE NewLink([text |-> Slice(Strip(IF a.text # <<>> THEN a.text ELSE a.aria), 0, TextLimit),
                  url |-> ResolveHref(a.href[1], base),
                  parent_text |-> get_parent_text(a)])

\* PageParser.extract_links
RECURSIVE ExtractLinksFrom(_, _, _, _)
ExtractLinksFrom(anchors, base, i, links) ==
    IF i > Len(anchors) THEN links
    ELSE LET r == ReadLink(anchors[i], base) IN
         ExtractLinksFrom(anchors, base, i + 1, IF r = <<>> THEN links ELSE Append(links, r[1]))

extract_links(d, base) == ExtractLinksFrom(d.links, base, 1, <<>>)

----------------------------------------------------------------------------
(* PageParser: pagination *)

\* the value every chunk carries in total_items until the sequence is complete
TotalUnknown == -1

WithTotalNotUpdated(items) == items

\* "Update total_items": every item rebuilt with total_items = len(items)
WithTotal(items) == [i \in 1..Len(items) |-> [items[i] EXCEPT !.total_items = Len(items)]]

\* the loop of parse_page_text_items over range(0, len(full_text), chunk_size)
RECURSIVE TextLoop(_, _, _, _, _, _)
TextLoop(starts, full_text, chunk_size, url, title, items) ==
    IF starts = <<>> THEN items
    ELSE TextLoop(Tail(starts), full_text, chunk_size, url, title,
            Append(items, [item_id |-> Len(items), total_items |-> TotalUnknown,
                           url |-> url, title |-> title,
                           text_chunk |-> Slice(full_text, Head(starts), Head(starts) + chunk_size)]))

parse_page_text_items_NoFallback(d, url, chunk_size) ==
    WithTotal(TextLoop(RangeStep(Len(get_visible_text(d)), chunk_size), get_visible_text(d),
                       chunk_size, url, d.title, <<>>))

\* PageParser.parse_page_text_items
parse_page_text_items(d, url, chunk_size) ==
    LET full_text == get_visible_text(d)
        looped == TextLoop(RangeStep(Len(full_text), chunk_size), full_text, chunk_size,
                           url, d.title, <<>>)
        items == IF looped = <<>>
                 THEN <<[item_id |-> 0, total_items |-> 1, url |-> url, title |-> d.title,
                         text_chunk |-> <<>>]>>
                 ELSE looped
    IN WithTotal(items)

\* the loop of parse_page_links_items over range(0, len(all_links), chunk_size)
RECURSIVE LinksLoop(_, _, _, _, _, _)
LinksLoop(starts, all_links, chunk_size, url, title, items) ==
    IF starts = <<>> THEN items
    ELSE LinksLoop(Tail(starts), all_links, chunk_size, url, title,
            Append(items, [item_id |-> Len(items), total_items |-> TotalUnknown,
                           url |-> url, title |-> title,
                           links |-> Slice(all_links, Head(starts), Head(starts) + chunk_size)]))

\* PageParser.parse_page_links_items
parse_page_links_items(d, url, chunk_size) ==
    LET all_links == extract_links(d, url)
        looped == LinksLoop(RangeStep(Len(all_links), chunk_size), all_links, chunk_size,
                            url, d.title, <<>>)
        items == IF looped = <<>>
                 THEN <<[item_id |-> 0, total_items |-> 1, url |-> url, title |-> d.title,
                         links |-> <<>>]>>
                 ELSE looped
    IN WithTotal(items)

\* PageParser._get_max_y_coordinate: the largest Y of the list, at least acc
RECURSIVE MaxYOf(_, _)
MaxYOf(elements, acc) ==
    IF elements = <<>> THEN acc
    ELSE MaxYOf(Tail(elements),
                IF PosY(Head(elements).position) > acc THEN PosY(Head(elements).position) ELSE acc)

get_max_y_coordinate(buttons, inputs) == MaxYOf(inputs, MaxYOf(buttons, 0))

InYRangeClosedAbove(y, y_start, y_end) == y_start < y /\ y <= y_end

\* the test of _filter_buttons_by_y_range / _filter_inputs_by_y_range
InYRange(y, y_start, y_end) == y_start <= y /\ y < y_end

\* PageParser._filter_buttons_by_y_range / _filter_inputs_by_y_range on one list
filter_by_y_range(elements, y_start, y_end) ==
    SelectSeq(elements, LAMBDA e : InYRange(PosY(e.position), y_start, y_end))

\* the while loop of parse_page_buttons_items: while y_start < max_y
RECURSIVE BandsLoop(_, _, _, _, _, _, _, _)
BandsLoop(y_start, max_y, section_height, buttons_external, inputs_external, url, title, items) ==
    IF ~(y_start < max_y) THEN items
    ELSE LET y_end == y_start + section_height IN
         BandsLoop(y_end, max_y, section_height, buttons_external, inputs_external, url, title,
            Append(items, [item_id |-> Len(items), total_items |-> TotalUnknown,
                           url |-> url, title |-> title,
                           buttons |-> filter_by_y_range(buttons_external, y_start, y_end),
                           inputs |-> filter_by_y_range(inputs_external, y_start, y_end)]))

BandsMaxYNoScroll(d, buttons_external, inputs_external) ==
    get_max_y_coordinate(buttons_external, inputs_external)

\* the max_y parse_page_buttons_items partitions: the largest element Y, or
\* document.body.scrollHeight when that is 0
BandsMaxY(d, buttons_external, inputs_external) ==
    LET max_y == get_max_y_coordinate(buttons_external, inputs_external)
    IN IF max_y = 0 THEN d.scrollHeight ELSE max_y

\* PageParser.parse_page_buttons_items, for a new PageParser (counter 0)
parse_page_buttons_items(d, url, section_height) ==
    LET b == extract_buttons(d, 0)
        i == extract_inputs(d, b.counter)
        looped == BandsLoop(0, BandsMaxY(d, b.external, i.external), section_height,
                            b.external, i.external, url, d.title, <<>>)
        items == IF looped = <<>>
                 THEN <<[item_id |-> 0, total_items |-> 1, url |-> url, title |-> d.title,
                         buttons |-> <<>>, inputs |-> <<>>]>>
                 ELSE looped
    IN [buttons_internal |-> b.internal, inputs_internal |-> i.internal, items |-> WithTotal(items)]

----------------------------------------------------------------------------
(* BrowserManager: the three pagination caches and the element registry *)

Kinds == {"text", "buttons", "links"}

EmptyRegistry == [id \in {} |-> id]

StoreByIdShifted(elements) ==
    [id \in {elements[i].id + 1 : i \in 1..Len(elements)} |->
        elements[CHOOSE i \in 1..Len(elements) : elements[i].id + 1 = id]]

\* {e.id: e for e in elements}: a later element replaces an earlier one of the same id
StoreById(elements) ==
    [id \in {elements[i].id : i \in 1..Len(elements)} |->
        elements[CHOOSE i \in 1..Len(elements) :
                    /\ elements[i].id = id
                    /\ \A j \in (i + 1)..Len(elements) : elements[j].id # id]]

NeedsRescanAlways(current_url, last_parsed_url, items) == TRUE

\* the test of get_next_page_*_item for a re-scan:
\* current_url != self._last_*_parsed_url or not self._*_items
NeedsRescan(current_url, last_parsed_url, items) ==
    current_url # last_parsed_url \/ items = <<>>

get_button_by_id_AnyEntry(button_id) ==
    IF button_id \in DOMAIN buttons_internal THEN Some(buttons_internal[button_id])
    ELSE IF DOMAIN buttons_internal # {}
         THEN Some(buttons_internal[CHOOSE id \in DOMAIN buttons_internal : TRUE])
         ELSE <<>>

\* BrowserManager.get_button_by_id / get_input_by_id: <<>> for None
get_button_by_id(button_id) ==
    IF button_id \in DOMAIN buttons_internal THEN Some(buttons_internal[button_id]) ELSE <<>>

get_input_by_id(input_id) ==
    IF input_id \in DOMAIN inputs_internal THEN Some(inputs_internal[input_id]) ELSE <<>>

reset_text_items_KeepsCursor ==
    /\ text_items' = <<>>
    /\ last_text_parsed_url' = NoUrl
    /\ UNCHANGED current_text_index

\* BrowserManager.reset_text_items
reset_text_items ==
    /\ text_items' = <<>>
    /\ current_text_index' = 0
    /\ last_text_parsed_url' = NoUrl

\* BrowserManager.reset_buttons_items
reset_buttons_items ==
    /\ buttons_items' = <<>>
    /\ current_buttons_index' = 0
    /\ last_buttons_parsed_url' = NoUrl
    /\ buttons_internal' = EmptyRegistry
    /\ inputs_internal' = EmptyRegistry
    /\ retired' = retired \cup DOMAIN buttons_internal \cup DOMAIN inputs_internal

\* BrowserManager.reset_links_items
reset_links_items ==
    /\ links_items' = <<>>
    /\ current_links_index' = 0
    /\ last_links_parsed_url' = NoUrl

\* the three resets the navigation methods and the tool wrappers run together
ResetPageItems == reset_text_items /\ reset_buttons_items /\ reset_links_items

textCache == <<text_items, current_text_index, last_text_parsed_url>>
buttonsCache == <<buttons_items, current_buttons_index, last_buttons_parsed_url,
                  buttons_internal, inputs_internal, retired>>
linksCache == <<links_items, current_links_index, last_links_parsed_url>>

\* what a tool call returned (status "ok") or raised (status: the exception class)
Res(tool, status, timeout, item, message, rescanned, driver) ==
    [tool |-> tool, status |-> status, timeout |-> timeout, item |-> item,
     message |-> message, rescanned |-> rescanned, driver |-> driver]

\* no tool result is waiting for the decision maker
NoResult == Res("", "ok", 0, NoItem, "", FALSE, <<>>)

\* history of one kind: the item ids get-next returned since the last reset or URL
\* change, and whether the cache was invalid then
ServedFrom(invalid) == [ids |-> <<>>, from_invalid |-> invalid]

\* history: get-next of a kind returned item (<<>>: the exhaustion signal)
ServedNext(h, item) ==
    IF item = <<>> THEN h ELSE [h EXCEPT !.ids = Append(@, item[1].item_id)]

\* history: restarted by a step that changed the page URL or reset the caches
ServedRestarted ==
    [text    |-> ServedFrom(NeedsRescan(page_url', last_text_parsed_url', text_items')),
     buttons |-> ServedFrom(NeedsRescan(page_url', last_buttons_parsed_url', buttons_items')),
     links   |-> ServedFrom(NeedsRescan(page_url', last_links_parsed_url', links_items'))]

\* history: a step other than get-next; reset says that it reset the caches
TrackServed(reset) ==
    served' = IF reset \/ page_url' # page_url THEN ServedRestarted ELSE served

AdvancedWrapsAround(index, items) == IF index < Len(items) THEN index + 1 ELSE 0

\* the cursor after get_next_page_*_item: "self._current_*_index += 1" under
\* "if self._current_*_index < len(self._*_items)"
Advanced(index, items) == IF index < Len(items) THEN index + 1 ELSE index

GetNextTextClearsRegistry ==
    LET current_url == page_url
        rescan == NeedsRescan(current_url, last_text_parsed_url, text_items)
        items == IF rescan THEN parse_page_text_items(dom, page_url, cfg.text_chunk_size)
                 ELSE text_items
        index == IF rescan THEN 0 ELSE current_text_index
        item == IF index < Len(items) THEN Some(items[index + 1]) ELSE NoItem
    IN /\ result = NoResult
       /\ text_items' = items
       /\ last_text_parsed_url' = IF rescan THEN current_url ELSE last_text_parsed_url
       /\ current_text_index' = Advanced(index, items)
       /\ result' = Res("get_page_text_next_item", "ok", 0, item,
                        IF item # NoItem THEN "Retrieved text chunk"
                        ELSE "All text chunks have been retrieved.", rescan, <<>>)
       /\ served' = [served EXCEPT !["text"] = ServedNext(@, item)]
       /\ buttons_internal' = IF rescan THEN EmptyRegistry ELSE buttons_internal
       /\ inputs_internal' = IF rescan THEN EmptyRegistry ELSE inputs_internal
       /\ UNCHANGED <<cfg, task, page_url, dom, buttons_items, current_buttons_index,
                      last_buttons_parsed_url, retired, linksCache>>

\* BrowserManager.get_next_page_text_item under tools/get_page_text_next_item.py
\* and the _get_page_text_next wrapper
GetNextText ==
    LET current_url == page_url
        rescan == NeedsRescan(current_url, last_text_parsed_url, text_items)
        items == IF rescan THEN parse_page_text_items(dom, page_url, cfg.text_chunk_size)
                 ELSE text_items
        index == IF rescan THEN 0 ELSE current_text_index
        item == IF index < Len(items) THEN Some(items[index + 1]) ELSE NoItem
    IN /\ result = NoResult
       /\ text_items' = items
       /\ last_text_parsed_url' = IF rescan THEN current_url ELSE last_text_parsed_url
       /\ current_text_index' = Advanced(index, items)
       /\ result' = Res("get_page_text_next_item", "ok", 0, item,
                        IF item # NoItem THEN "Retrieved text chunk"
                        ELSE "All text chunks have been retrieved.", rescan, <<>>)
       /\ served' = [served EXCEPT !["text"] = ServedNext(@, item)]
       /\ UNCHANGED <<cfg, task, page_url, dom, buttonsCache, linksCache>>

\* BrowserManager.get_next_page_buttons_item under tools/get_page_buttons_next_item.py
GetNextButtons ==
    LET current_url == page_url
        rescan == NeedsRescan(current_url, last_buttons_parsed_url, buttons_items)
        parsed == parse_page_buttons_items(dom, page_url, cfg.parse_item_size)
        items == IF rescan THEN parsed.items ELSE buttons_items
        index == IF rescan THEN 0 ELSE current_buttons_index
        item == IF index < Len(items) THEN Some(items[index + 1]) ELSE NoItem
    IN /\ result = NoResult
       /\ buttons_internal' = IF rescan THEN StoreById(parsed.buttons_internal)
                              ELSE buttons_internal
       /\ inputs_internal' = IF rescan THEN StoreById(parsed.inputs_internal)
                             ELSE inputs_internal
       /\ buttons_items' = items
       /\ last_buttons_parsed_url' = IF rescan THEN current_url ELSE last_buttons_parsed_url
       /\ current_buttons_index' = Advanced(index, items)
       /\ result' = Res("get_page_buttons_next_item", "ok", 0, item,
                        IF item # NoItem THEN "Retrieved buttons"
                        ELSE "All buttons items have been retrieved.", rescan, <<>>)
       /\ served' = [served EXCEPT !["buttons"] = ServedNext(@, item)]
       /\ UNCHANGED <<cfg, task, page_url, dom, textCache, linksCache, retired>>

\* BrowserManager.get_next_page_links_item under tools/get_page_links_next_item.py
GetNextLinks ==
    LET current_url == page_url
        rescan == NeedsRescan(current_url, last_links_parsed_url, links_items)
        items == IF rescan THEN parse_page_links_items(dom, page_url, cfg.links_chunk_size)
                 ELSE links_items
        index == IF rescan THEN 0 ELSE current_links_index
        item == IF index < Len(items) THEN Some(items[index + 1]) ELSE NoItem
    IN /\ result = NoResult
       /\ links_items' = items
       /\ last_links_parsed_url' = IF rescan THEN current_url ELSE last_links_parsed_url
       /\ current_links_index' = Advanced(index, items)
       /\ result' = Res("get_page_links_next_item", "ok", 0, item,
                        IF item # NoItem THEN "Retrieved links"
                        ELSE "All links items have been retrieved.", rescan, <<>>)
       /\ served' = [served EXCEPT !["links"] = ServedNext(@, item)]
       /\ UNCHANGED <<cfg, task, page_url, dom, textCache, buttonsCache>>

----------------------------------------------------------------------------
(* The pages the browser can show *)

\* the URL of a new tab, the URLs _navigate can be given, the URLs a page can get
BlankUrl == "about:blank"
NavUrls == {"https://a"}
Urls == NavUrls \cup {BlankUrl}

\* the page of a new tab, and the empty page of the tests
BlankDom == PageDom("", <<>>, <<>>, <<>>, 0)

\* a <button role=button> and an input in two bands, a link, text of two chunks
DomForm ==
    PageDom("T", <<"a", "b", "c">>,
            <<Element("button", "button", <<>>, TRUE, Some(Box(0, 0, 4, 2)), <<>>, <<"G", "o">>),
              InputAt(3)>>,
            <<Anchor(<<"l">>, Some([absolute |-> FALSE, path |-> "x"]), TRUE)>>, 4)

\* an input above a hidden button, a button without a box and a button that is
\* the lowest element of the page
DomSearch ==
    PageDom("T", <<" ", "a", "b", " ">>,
            <<InputAt(1),
              Element("button", "", <<>>, FALSE, Some(Box(0, 0, 4, 2)), <<"h">>, <<>>),
              Element("input", "", Some("submit"), TRUE, <<>>, <<>>, <<"n">>),
              ButtonAt(2)>>,
            <<Anchor(<<>>, <<>>, TRUE)>>, 2)

Doms == {BlankDom, DomForm, DomSearch}

\* the element page.locator(selector).nth(idx) finds on the page now; <<>> if none
Resolve(d, locator) ==
    LET m == QuerySelectorAll(d, locator.selector)
    IN IF locator.nth < Len(m) THEN Some(m[locator.nth + 1]) ELSE <<>>

\* whether element.wait_for(state='visible') returns rather than times out
LocatorVisible(d, locator) ==
    Resolve(d, locator) # <<>> /\ Resolve(d, locator)[1].vis

\* a driver operation on a locator (or on the page: PageTarget)
PageTarget == [selector |-> "page", nth |-> 0]
Op(name, target) == [op |-> name, target |-> target]

\* the driver's errors: playwright's Error and its subclass TimeoutError
PlaywrightErrors == {"TargetClosedError", "TimeoutError"}

\* what the driver says when the window is gone; the text holds the keywords
\* 'target' and 'closed' that handle_browser_closed looks for
ClosedMessage == "Target page, context or browser has been closed"

\* the decorator around every tool: a driver error whose text says the
\* window is closed becomes BrowserClosedError, anything else passes
handle_browser_closed(class, message) ==
    IF class \in PlaywrightErrors /\ message = ClosedMessage
    THEN "BrowserClosedError" ELSE class

\* the except clauses of the tool's own body, inside the decorator;
\* BrowserManager.navigate has none
ToolExcept(tool, class) ==
    CASE tool \in {"click_button", "type_text", "fill_input"} ->
             IF class = "TimeoutError" THEN "ElementNotFoundError"
             ELSE IF class = "ElementNotFoundError" THEN class
             ELSE "UnknownError"
      [] tool = "press_key" -> "UnknownError"
      [] tool \in {"get_page_text_next_item", "get_page_buttons_next_item",
                   "get_page_links_next_item"} ->
             IF class = "BrowserClosedError" THEN class ELSE "UnknownError"
      [] OTHER -> class

\* the class of the failure that leaves the tool; _navigate calls
\* BrowserManager.navigate, which is not decorated
LeavesTool(tool, class, message) ==
    IF tool = "navigate" THEN class
    ELSE handle_browser_closed(ToolExcept(tool, class), message)

\* the outcomes of a wait of the driver: it returns or it times out
WaitOutcomes == {"ok", "TimeoutError"}

wait_for_load_state_Unguarded(outcome) == outcome

\* "try: await page.wait_for_load_state('networkidle', timeout=...)
\*  except PlaywrightTimeout: pass": what is left of the wait's outcome
wait_for_load_state(outcome) == IF outcome = "TimeoutError" THEN "ok" ELSE outcome

\* the wait for the network to settle as the driver saw it
NetworkIdle(outcome) ==
    Op(IF outcome = "TimeoutError" THEN "wait_for_load_state: timeout"
       ELSE "wait_for_load_state", PageTarget)

\* how the tool ends when its body is left with the class ("ok": by return)
Ends(tool, class) == IF class = "ok" THEN "ok" ELSE ToolExcept(tool, class)

----------------------------------------------------------------------------
(* The tools of agent/tools_config.py *)

\* _navigate -> BrowserManager.navigate
Navigate(url) ==
    \/ \E outcome \in WaitOutcomes :
         LET status == Ends("navigate", wait_for_load_state(outcome)) IN
         /\ result = NoResult
         /\ page_url' = url
         /\ \E d \in Doms : dom' = d
         /\ IF status = "ok" THEN ResetPageItems
            ELSE UNCHANGED <<textCache, buttonsCache, linksCache>>
         /\ result' = Res("navigate", status, 0, NoItem,
                          IF status = "ok" THEN "Successfully navigated to" ELSE "networkidle",
                          FALSE, <<Op("goto", PageTarget), NetworkIdle(outcome)>>)
         /\ TrackServed(status = "ok")
         /\ UNCHANGED <<cfg, task>>
    \/ \* page.goto raises playwright's TimeoutError; nothing catches it
       /\ result = NoResult
       /\ \/ UNCHANGED <<page_url, dom>>
          \/ page_url' = url /\ \E d \in Doms : dom' = d
       /\ result' = Res("navigate", "TimeoutError", 30, NoItem, "goto", FALSE,
                        <<Op("goto", PageTarget)>>)
       /\ UNCHANGED <<cfg, task, textCache, buttonsCache, linksCache>>
       /\ TrackServed(FALSE)

\* _go_back -> BrowserManager.go_back
GoBack ==
    \/ /\ result = NoResult
       /\ \E u \in Urls, d \in Doms : page_url' = u /\ dom' = d
       /\ ResetPageItems
       /\ result' = Res("go_back", "ok", 0, NoItem, "Successfully navigated back", FALSE,
                        <<Op("go_back", PageTarget)>>)
       /\ TrackServed(TRUE)
       /\ UNCHANGED <<cfg, task>>
    \/ \* page.go_back raises playwright's TimeoutError
       /\ result = NoResult
       /\ result' = Res("go_back", "TimeoutError", 30, NoItem, "go_back", FALSE,
                        <<Op("go_back", PageTarget)>>)
       /\ UNCHANGED <<cfg, task, page_url, dom, textCache, buttonsCache, linksCache, served>>

\* _click -> tools/click_button.py; the wrapper resets nothing
ClickButton(button_id) ==
    LET button_internal == get_button_by_id(button_id) IN
    \/ /\ result = NoResult
       /\ button_internal = <<>>
       /\ result' = Res("click_button", "ElementNotFoundError", 0, NoItem, "button_id", FALSE, <<>>)
       /\ UNCHANGED <<cfg, task, page_url, dom, textCache, buttonsCache, linksCache, served>>
    \/ /\ result = NoResult
       /\ button_internal # <<>>
       /\ ~LocatorVisible(dom, button_internal[1].element)
       /\ result' = Res("click_button", Ends("click_button", "TimeoutError"), 5, NoItem,
                        "button_id", FALSE,
                        <<Op("wait_for", button_internal[1].element)>>)
       /\ UNCHANGED <<cfg, task, page_url, dom, textCache, buttonsCache, linksCache, served>>
    \/ \* element.click(timeout=5000) times out
       /\ result = NoResult
       /\ button_internal # <<>>
       /\ LocatorVisible(dom, button_internal[1].element)
       /\ result' = Res("click_button", Ends("click_button", "TimeoutError"), 5, NoItem,
                        "button_id", FALSE,
                        <<Op("wait_for", button_internal[1].element),
                          Op("scroll_into_view_if_needed", button_internal[1].element),
                          Op("click", button_internal[1].element)>>)
       /\ UNCHANGED <<cfg, task, page_url, dom, textCache, buttonsCache, linksCache, served>>
    \/ \* the click is done; the page may navigate or change
       \E outcome \in WaitOutcomes :
         LET status == Ends("click_button", wait_for_load_state(outcome)) IN
         /\ result = NoResult
         /\ button_internal # <<>>
         /\ LocatorVisible(dom, button_internal[1].element)
         /\ \E u \in Urls, d \in Doms : page_url' = u /\ dom' = d
         /\ result' = Res("click_button", status, IF status = "ok" THEN 0 ELSE 5, NoItem,
                          IF status = "ok" THEN "Successfully clicked button" ELSE "button_id",
                          FALSE,
                          <<Op("wait_for", button_internal[1].element),
                            Op("scroll_into_view_if_needed", button_internal[1].element),
                            Op("click", button_internal[1].element),
                            NetworkIdle(outcome)>>)
         /\ UNCHANGED <<cfg, task, textCache, buttonsCache, linksCache>>
         /\ TrackServed(FALSE)

\* _type -> type_text (op "type") and _fill -> fill_input (op "fill") of tools/type_text.py
InputTool(tool, op, input_id) ==
    LET input_internal == get_input_by_id(input_id)
        focus == IF op = "type" THEN <<Op("click", input_internal[1].element)>> ELSE <<>>
    IN
    \/ /\ result = NoResult
       /\ input_internal = <<>>
       /\ result' = Res(tool, "ElementNotFoundError", 0, NoItem, "input_id", FALSE, <<>>)
       /\ UNCHANGED <<cfg, task, page_url, dom, textCache, buttonsCache, linksCache, served>>
    \/ /\ result = NoResult
       /\ input_internal # <<>>
       /\ ~LocatorVisible(dom, input_internal[1].element)
       /\ result' = Res(tool, Ends(tool, "TimeoutError"), 5, NoItem, "input_id", FALSE,
                        <<Op("wait_for", input_internal[1].element)>>)
       /\ UNCHANGED <<cfg, task, page_url, dom, textCache, buttonsCache, linksCache, served>>
    \/ \* the focusing click, element.type or element.fill times out; the
       \* focusing click may have changed the page
       /\ result = NoResult
       /\ input_internal # <<>>
       /\ LocatorVisible(dom, input_internal[1].element)
       /\ \E d \in (IF op = "type" THEN Doms ELSE {dom}) : dom' = d
       /\ \E last \in (IF op = "type" THEN {focus, focus \o <<Op(op, input_internal[1].element)>>}
                        ELSE {<<Op(op, input_internal[1].element)>>}) :
             result' = Res(tool, Ends(tool, "TimeoutError"), 5, NoItem, "input_id", FALSE,
                           <<Op("wait_for", input_internal[1].element),
                             Op("scroll_into_view_if_needed", input_internal[1].element)>>
                           \o last)
       /\ UNCHANGED <<cfg, task, page_url, textCache, buttonsCache, linksCache, served>>
    \/ \* the text is entered; the wrapper resets the three caches
       /\ result = NoResult
       /\ input_internal # <<>>
       /\ LocatorVisible(dom, input_internal[1].element)
       /\ \E d \in Doms : dom' = d
       /\ UNCHANGED <<cfg, task, page_url>>
       /\ ResetPageItems
       /\ result' = Res(tool, "ok", 0, NoItem,
                        IF op = "type" THEN "Successfully typed text into input"
                        ELSE "Successfully filled input", FALSE,
                        <<Op("wait_for", input_internal[1].element),
                          Op("scroll_into_view_if_needed", input_internal[1].element)>>
                        \o focus \o <<Op(op, input_internal[1].element)>>)
       /\ TrackServed(TRUE)

TypeText(input_id) == InputTool("type_text", "type", input_id)

FillInput(input_id) == InputTool("fill_input", "fill", input_id)

\* _press_key -> tools/press_key.py
PressKey ==
    \/ \E outcome \in WaitOutcomes :
         LET status == Ends("press_key", wait_for_load_state(outcome)) IN
         /\ result = NoResult
         /\ \E u \in Urls, d \in Doms : page_url' = u /\ dom' = d
         /\ IF status = "ok" THEN ResetPageItems
            ELSE UNCHANGED <<textCache, buttonsCache, linksCache>>
         /\ result' = Res("press_key", status, 0, NoItem,
                          IF status = "ok" THEN "Successfully pressed key" ELSE "Unexpected Error",
                          FALSE, <<Op("keyboard.press", PageTarget), NetworkIdle(outcome)>>)
         /\ TrackServed(status = "ok")
         /\ UNCHANGED <<cfg, task>>
    \/ \* keyboard.press raises (a key name the driver does not know)
       /\ result = NoResult
       /\ result' = Res("press_key", "UnknownError", 0, NoItem, "Unexpected Error", FALSE,
                        <<Op("keyboard.press", PageTarget)>>)
       /\ UNCHANGED <<cfg, task, page_url, dom, textCache, buttonsCache, linksCache, served>>

\* the tool result goes to the decision maker (agent/graph.py: the edge from
\* the tools node back to agent_node), which then may call the next tool
agent_node ==
    /\ result # NoResult
    /\ result' = NoResult
    /\ UNCHANGED <<cfg, task, page_url, dom, textCache, buttonsCache, linksCache, served>>

\* the page navigates or rewrites itself (a redirect, a script), no tool involved
PageChanges ==
    /\ result = NoResult
    /\ \E u \in Urls, d \in Doms :
          /\ <<u, d>> # <<page_url, dom>>
          /\ page_url' = u
          /\ dom' = d
    /\ UNCHANGED <<cfg, task, textCache, buttonsCache, linksCache, result>>
    /\ TrackServed(FALSE)

----------------------------------------------------------------------------
(* The task loop: CLIInterface.process_message around agent_graph.astream *)

\* config.agent_max_retries
agent_max_retries == 3

\* the exception classes of exceptions/tool_execution.py and of exceptions/
ToolExecutionErrors == {"ToolExecutionError", "ElementNotFoundError", "NavigationTimeoutError"}
DomainErrors ==
    ToolExecutionErrors
    \cup {"DomainError", "BrowserClosedError", "FunctionCallFormatError", "UnknownError"}

\* the parts an error_reason is formatted from
Reason(text, selector, timeout, original) ==
    [text |-> text, selector |-> selector, timeout |-> timeout, original |-> original]

NoReason == Reason("", "", 0, "")

\* exceptions/tool_execution.py: ElementNotFoundError(selector, timeout)
ElementNotFoundError(selector, timeout) ==
    [class |-> "ElementNotFoundError",
     error_reason |-> Reason("Element with selector not found within seconds", selector, timeout, ""),
     proposed_fix |-> "Use get_page_info tool to find correct selector on current page"]

\* exceptions/function_call_format.py
FunctionCallFormatError ==
    [class |-> "FunctionCallFormatError",
     error_reason |-> Reason("LLM generated invalid function call format", "", 0, ""),
     proposed_fix |-> "Check that all tool definitions have proper args_schema"]

\* exceptions/unknown_error.py: UnknownError(original_error), by the class of the original
UnknownError(original) ==
    [class |-> "UnknownError",
     error_reason |-> Reason("Unexpected", "", 0, original),
     proposed_fix |-> "Report this error to developers or retry the operation"]

\* an exception that is no DomainError (playwright's TimeoutError, an error of
\* the LLM client): it has neither error_reason nor proposed_fix
Foreign(class) == [class |-> class, error_reason |-> NoReason, proposed_fix |-> ""]

\* the exception a tool call ended with, from what the call recorded
RaisedBy(res) ==
    CASE res.status = "ElementNotFoundError" -> ElementNotFoundError(res.message, res.timeout)
      [] res.status = "UnknownError"         -> UnknownError("Error")
      [] OTHER                               -> Foreign(res.status)

ExceptClauseUnknownRetried(class) ==
    IF class \in ToolExecutionErrors \cup {"UnknownError"} THEN "ToolExecutionError"
    ELSE IF class = "BrowserClosedError" THEN "BrowserClosedError"
    ELSE IF class = "FunctionCallFormatError" THEN "FunctionCallFormatError"
    ELSE IF class \in DomainErrors THEN "DomainError"
    ELSE "Exception"

\* the except clause of process_message that catches an exception of the class:
\* the first of ToolExecutionError, BrowserClosedError, FunctionCallFormatError,
\* DomainError, Exception that the class is a subclass of
ExceptClause(class) ==
    IF class \in ToolExecutionErrors THEN "ToolExecutionError"
    ELSE IF class = "BrowserClosedError" THEN "BrowserClosedError"
    ELSE IF class = "FunctionCallFormatError" THEN "FunctionCallFormatError"
    ELSE IF class \in DomainErrors THEN "DomainError"
    ELSE "Exception"

\* a message of role system: what save_message persists and, on the retry
\* path, what is appended to current_state["messages"]
SystemMessage(content, error_reason, proposed_fix, attempt) ==
    [role |-> "system", content |-> content, error_reason |-> error_reason,
     proposed_fix |-> proposed_fix, attempt |-> attempt]

\* the content the except clauses that end the task persist
FatalContent(clause) ==
    CASE clause = "BrowserClosedError"      -> "Browser closed"
      [] clause = "FunctionCallFormatError" -> "Critical error"
      [] clause = "DomainError"             -> "Error"
      [] OTHER                              -> "Unexpected error"

\* while retry_count <= MAX_RETRIES
WhileRetrying(retry_count) == retry_count <= agent_max_retries

ExceededRetriesNever(retry_count) == FALSE

\* if retry_count > MAX_RETRIES
ExceededRetries(retry_count) == retry_count > agent_max_retries

StepLimitPassedNever(step_count) == FALSE

\* if step_count > config.agent_max_steps
StepLimitPassed(step_count) == step_count > MaxSteps

\* the tools the agent node of the task loop chooses from
TaskTools == {"navigate", "click_button", "get_page_buttons_next_item", "press_key"}

\* models/debug DebugEvent, without the timestamp
DebugEvent(type, tool_name) == [type |-> type, tool_name |-> tool_name]

\* DebugCollector.reset: an empty event list (no caller in the program)
reset == Some(<<>>)

\* DebugCollector.add_tool_call / add_tool_result on debug_info (<<>> for None)
add_tool_call(debug_info, tool_name) ==
    IF debug_info = <<>> THEN debug_info
    ELSE Some(Append(debug_info[1], DebugEvent("tool_call", tool_name)))

add_tool_result(debug_info, tool_name) ==
    IF debug_info = <<>> THEN debug_info
    ELSE Some(Append(debug_info[1], DebugEvent("tool_result", tool_name)))

\* no task yet: the session start_new_session created, status ACTIVE;
\* debug_info is DebugCollector.debug_info, tool_calls the tool calls of the
\* last answer of the LLM, executed and returned count the tool invocations
\* that ran and that returned, gather the tool coroutines of the tools node,
\* moved whether the page changed since they were started, completed the
\* "completed" of the graph state, outcome how the loop of the task was left,
\* context the messages (by kind) the LLM was last invoked with, closed the
\* persisted status of the session that /new or /exit has just closed and
\* whether that session was FAILED before
NoTask ==
    [phase |-> "idle", retry_count |-> 0, step_count |-> 0, messages |-> <<>>,
     status |-> "active", saved |-> <<>>,
     steps |-> 0, dispatches |-> 0, failures |-> 0, raised |-> <<>>,
     tool_calls |-> <<>>, debug_info |-> <<>>, executed |-> 0, returned |-> 0,
     gather |-> <<>>, moved |-> FALSE, completed |-> FALSE, outcome |-> "",
     context |-> <<>>, closed |-> <<>>]

\* what the task loop leaves alone
browserVars == <<cfg, page_url, dom, textCache, buttonsCache, linksCache, served>>

\* DatabaseService.update_session_status: the status the session row holds
\* after the call, whatever it held before
update_session_status(held, status) == status

\* the session as handle_command(command) and the finally clause of run leave it
Closed(t, command) ==
    Some([status |-> update_session_status(t.status, "completed"),
          was_failed |-> t.status = "failed", command |-> command])

\* /exit was given: run has returned
Exited(t) == t.closed # <<>> /\ t.closed[1].command = "/exit"

\* process_message up to the first agent_graph.astream(current_state)
process_message ==
    /\ task.phase \in {"idle", "ended"}
    /\ ~Exited(task)
    /\ task' = [NoTask EXCEPT !.phase = "agent", !.status = task.status, !.saved = task.saved,
                              !.dispatches = 1, !.debug_info = task.debug_info]
    /\ UNCHANGED <<browserVars, result>>

\* handle_command("/new"): the session is closed and start_new_session makes a new one
start_new_session ==
    /\ task.phase = "ended"
    /\ task' = [NoTask EXCEPT !.closed = Closed(task, "/new")]
    /\ UNCHANGED <<browserVars, result>>

\* handle_command("/exit"): the session is closed, KeyboardInterrupt leaves the
\* loop of run and its finally clause closes the session once more
handle_exit ==
    /\ task.phase \in {"idle", "ended"}
    /\ ~Exited(task)
    /\ task' = [NoTask EXCEPT !.closed = Closed(task, "/exit")]
    /\ UNCHANGED <<browserVars, result>>

\* the body of "async for event in agent_graph.astream": the event of one node
\* is counted and shown, then the step limit is tested; next is the node the
\* graph runs after it ("ended": the stream is over)
Stepped(t, next) ==
    LET step_count == t.step_count + 1
    IN [t EXCEPT !.step_count = step_count,
                 !.steps = @ + 1,
                 !.phase = IF StepLimitPassed(step_count) THEN "ended" ELSE next,
                 !.outcome = IF StepLimitPassed(step_count) THEN "step_limit"
                             ELSE IF next = "ended" THEN "finished" ELSE @]

\* the except clauses of process_message, for exception e raised out of astream
\* while tool was running ("" for the agent node)
Except(t, e, tool) ==
    LET clause == ExceptClause(e.class)
        retry_count == t.retry_count + 1
        seen == [tool |-> tool, class |-> e.class, error_reason |-> e.error_reason,
                 proposed_fix |-> e.proposed_fix, dispatches |-> t.dispatches]
        error_message == SystemMessage("Tool execution failed", e.error_reason,
                                       e.proposed_fix, retry_count)
    IN IF clause = "ToolExecutionError"
       THEN IF ExceededRetries(retry_count)
            THEN [t EXCEPT !.phase = "ended", !.outcome = "failed", !.retry_count = retry_count,
                              !.status = "failed",
                              !.saved = Some(SystemMessage("Failed after attempts",
                                                           e.error_reason, "", agent_max_retries)),
                              !.failures = @ + 1, !.raised = Some(seen)]
            ELSE IF WhileRetrying(retry_count)
            THEN \* the loop goes round: step_count = 0 and astream(current_state) again
                 [t EXCEPT !.phase = "agent", !.retry_count = retry_count,
                              !.step_count = 0,
                              !.messages = Append(@, error_message),
                              !.saved = Some(error_message),
                              !.dispatches = @ + 1,
                              !.failures = @ + 1, !.raised = Some(seen)]
            ELSE [t EXCEPT !.phase = "ended", !.outcome = "failed", !.retry_count = retry_count,
                              !.messages = Append(@, error_message),
                              !.saved = Some(error_message),
                              !.failures = @ + 1, !.raised = Some(seen)]
       ELSE [t EXCEPT !.phase = "ended", !.outcome = "failed", !.status = "failed",
                         !.saved = Some(SystemMessage(FatalContent(clause),
                                            IF clause = "Exception"
                                            THEN UnknownError(e.class).error_reason
                                            ELSE e.error_reason,
                                            IF clause \in {"FunctionCallFormatError", "DomainError"}
                                            THEN e.proposed_fix ELSE "", 0)),
                         !.raised = Some(seen)]

\* state["messages"] as the agent node finds it: the HumanMessage of
\* initial_state, the error messages the retries appended to current_state,
\* then the answers of the LLM and the tool messages of this run of the graph
GraphMessages(t) ==
    <<"human">> \o [i \in 1..Len(t.messages) |-> "error"]
                \o [i \in 1..t.step_count |-> IF i % 2 = 1 THEN "ai" ELSE "tool"]

\* agent_node: "Add system prompt if first message"
WithSystemPrompt(messages) ==
    IF Len(messages) = 1 THEN <<"SYSTEM_PROMPT">> \o messages ELSE messages

\* the conditional edge from the agent node: tools_condition with
\* {"tools": "tools", END: "check_completion"}
tools_condition(tool_calls) == IF tool_calls # <<>> THEN "tools" ELSE "check"

check_completion_NeverCompleted(tool_calls) == FALSE

\* check_completion: completed, from the tool calls of the last message
check_completion(tool_calls) == tool_calls = <<>>

\* the agent node (agent/graph.py agent_node): the LLM answers with tool calls
\* (tools_condition: the tools node is next) or without (check_completion is next)
\* and the tool call is added to the debug events
AgentAnswers(tools) ==
    /\ task.phase = "agent"
    /\ \E tool_calls \in {<<>>} \cup {<<tool>> : tool \in tools} :
          task' = Stepped([task EXCEPT !.tool_calls = tool_calls,
                                       !.context = WithSystemPrompt(GraphMessages(task)),
                                       !.completed = FALSE,
                                       !.debug_info = IF tool_calls = <<>> THEN @
                                                      ELSE add_tool_call(@, tool_calls[1])],
                          tools_condition(tool_calls))
    /\ UNCHANGED <<browserVars, result>>

AgentStep == AgentAnswers(TaskTools)

\* the agent node raises: FunctionCallFormatError for a 400 "Failed to call a
\* function" of the LLM client, any other exception of the client as it is
AgentRaises ==
    /\ task.phase = "agent"
    /\ \E e \in {FunctionCallFormatError, Foreign("APIError")} :
          task' = Except([task EXCEPT !.context = WithSystemPrompt(GraphMessages(task))], e, "")
    /\ UNCHANGED <<browserVars, result>>

\* the tool call has run: collect_tool_result adds the result of a tool that
\* returned to the debug events
Ran(t) ==
    [t EXCEPT !.executed = @ + 1,
              !.returned = IF result.status = "ok" THEN @ + 1 ELSE @,
              !.debug_info = IF result.status = "ok" THEN add_tool_result(@, result.tool) ELSE @]

\* the tools node has run the tool call and its message goes back to the agent
\* node; ToolNode can also be set to turn an exception of a tool into such a message
ToolsStep ==
    /\ task.phase = "tools"
    /\ result # NoResult
    /\ task' = Stepped(Ran(task), "agent")
    /\ result' = NoResult
    /\ UNCHANGED browserVars

\* the exception of the tool call leaves the tools node and astream
ToolsRaises ==
    /\ task.phase = "tools"
    /\ result # NoResult
    /\ result.status # "ok"
    /\ task' = Except(Ran(task), RaisedBy(result), result.tool)
    /\ result' = NoResult
    /\ UNCHANGED browserVars

\* the check_completion node, after which the graph ends and the loop is left
CheckCompletionStep ==
    /\ task.phase = "check"
    /\ task' = Stepped([task EXCEPT !.completed = check_completion(task.tool_calls)], "ended")
    /\ UNCHANGED <<browserVars, result>>

\* the tools node runs the tool call of the last message
ToolCall ==
    /\ task.phase = "tools"
    /\ \/ task.tool_calls = <<"navigate">> /\ \E url \in NavUrls : Navigate(url)
       \/ task.tool_calls = <<"click_button">> /\ \E id \in 0..MaxIdArg : ClickButton(id)
       \/ task.tool_calls = <<"get_page_buttons_next_item">> /\ GetNextButtons
       \/ task.tool_calls = <<"press_key">> /\ PressKey

\* the tool call fails on a driver error that is no timeout (the window was
\* closed) at its first call of the driver: goto, the wait for the button,
\* the key press, the scan of the page
DriverFails ==
    /\ task.phase = "tools"
    /\ result = NoResult
    /\ \E tool \in TaskTools :
          /\ task.tool_calls = <<tool>>
          /\ tool = "click_button" => DOMAIN buttons_internal # {}
          /\ tool = "get_page_buttons_next_item" =>
                 NeedsRescan(page_url, last_buttons_parsed_url, buttons_items)
          /\ result' = Res(tool, LeavesTool(tool, "TargetClosedError", ClosedMessage),
                           0, NoItem, ClosedMessage, FALSE,
                           IF tool = "navigate" THEN <<Op("goto", PageTarget)>> ELSE <<>>)
    /\ UNCHANGED <<browserVars, task>>

----------------------------------------------------------------------------
(* The specification: a BrowserManager after start(), driven through the tools *)

\* BrowserManager.__init__
InitManager ==
    /\ text_items = <<>>
    /\ current_text_index = 0
    /\ last_text_parsed_url = NoUrl
    /\ buttons_items = <<>>
    /\ current_buttons_index = 0
    /\ last_buttons_parsed_url = NoUrl
    /\ links_items = <<>>
    /\ current_links_index = 0
    /\ last_links_parsed_url = NoUrl
    /\ buttons_internal = EmptyRegistry
    /\ inputs_internal = EmptyRegistry
    /\ result = NoResult
    /\ served = [k \in Kinds |-> ServedFrom(TRUE)]
    /\ retired = {}

\* the configuration of the small pages: chunks of two characters, two links, bands of height two
SmallCfg == [text_chunk_size |-> 2, links_chunk_size |-> 2, parse_item_size |-> 2]

Init ==
    /\ cfg = SmallCfg
    /\ page_url = BlankUrl
    /\ dom = BlankDom
    /\ InitManager
    /\ task = NoTask

Next ==
    \/ GetNextText
    \/ GetNextButtons
    \/ GetNextLinks
    \/ \E url \in NavUrls : Navigate(url)
    \/ GoBack
    \/ \E id \in 0..MaxIdArg : ClickButton(id)
    \/ \E id \in 0..MaxIdArg : TypeText(id)
    \/ \E id \in 0..MaxIdArg : FillInput(id)
    \/ PressKey
    \/ agent_node
    \/ PageChanges

Spec == Init /\ [][Next]_vars

----------------------------------------------------------------------------
(* The parser alone: one page that does not change, paginated under every
   configuration; the inputs are all small pages and the pages of tests/ *)

TextChars == {"a", " "}

\* every body text of at most MaxTextLen characters
Texts == UNION {[1..n -> TextChars] : n \in 0..MaxTextLen}

\* a button or a text input centered at any height up to MaxCenterY
Placed == {ButtonAt(y) : y \in 0..MaxCenterY} \cup {InputAt(y) : y \in 0..MaxCenterY}

\* the pages of at most two elements, in every document order
ElemSeqs == {<<>>} \cup {<<e>> : e \in Placed} \cup {<<e, f>> : e \in Placed, f \in Placed}

TextPages == {PageDom("T", t, <<>>, <<>>, 0) : t \in Texts}

\* scrollHeight is read only when no element has a positive Y
ElemPages ==
    {PageDom("T", <<"a">>, es, <<>>, MaxCenterY) : es \in ElemSeqs}
    \cup {PageDom("T", <<"a">>, es, <<>>, 0) :
            es \in {s \in ElemSeqs : \A i \in 1..Len(s) : Center(s[i].box[1])[2] = 0}}

\* tests/test_text_pagination.py, tests/test_buttons_pagination.py: the patched config
TestCfg == [text_chunk_size |-> 700, links_chunk_size |-> 20, parse_item_size |-> 1000]

\* tests/test_text_pagination.py: "A" * 2100
TestTextPage == PageDom("Test Page", [i \in 1..2100 |-> "A"], <<>>, <<>>, 0)

\* five buttons at Y = 200, 800, 1200, 1800, 2200 on a page 2500 high
TestButtonYs == <<200, 800, 1200, 1800, 2200>>
TestButtonsPage ==
    PageDom("Test Page", <<"a">>,
            [i \in 1..Len(TestButtonYs) |->
                Element("button", "", <<>>, TRUE, Some(Box(50, TestButtonYs[i] - 15, 100, 30)),
                        <<"B">>, <<>>)],
            <<>>, 2500)

\* tests/test_buttons_pagination.py: test_empty_page_returns_one_item
TestEmptyPage == PageDom("Empty Page", <<>>, <<>>, <<>>, 0)

\* a visible <a href> with an absolute href
LinkTo(n) == Anchor(<<" ", "l">>, Some([absolute |-> TRUE, path |-> ToString(n)]), TRUE)

\* the pages of up to MaxLinks visible links, and a page that also has a
\* hidden link and an <a> whose href is empty
LinkPages ==
    {PageDom("T", <<"a">>, <<>>, [i \in 1..n |-> LinkTo(i)], 0) : n \in 0..MaxLinks}
    \cup {PageDom("T", <<"a">>, <<>>,
                   <<LinkTo(1), Anchor(<<"h">>, Some([absolute |-> FALSE, path |-> "x"]), FALSE),
                     Anchor(<<"e">>, <<>>, TRUE), LinkTo(2)>>, 0)}

\* tests/test_links_pagination.py: 50 links "Link i" to https://example.com/page<i>
TestLinksPage == PageDom("Test Page", <<"a">>, <<>>, [i \in 1..50 |-> LinkTo(i)], 1000)

\* the element with a read that raises
Failing(e, read) == [e EXCEPT !.err = read]

\* a <button role="button">: it matches two selectors of extract_buttons
RoleButtonAt(y) == [ButtonAt(y) EXCEPT !.role = "button"]

\* elements that are not read through, not visible, without a box, or that
\* match two selectors
OddElems ==
    {Failing(ButtonAt(2), read) : read \in Reads}
    \cup {Failing(InputAt(2), read) : read \in Reads}
    \cup {[ButtonAt(2) EXCEPT !.vis = FALSE], [ButtonAt(2) EXCEPT !.box = <<>>],
          [InputAt(2) EXCEPT !.vis = FALSE], [InputAt(2) EXCEPT !.box = <<>>],
          [ButtonAt(2) EXCEPT !.text = <<>>, !.value = <<"g", "o">>, !.err = "get_attribute"],
          RoleButtonAt(2)}

\* an odd element between, before and after elements that read well; a link
\* that is not read through before one that is
OddPages ==
    {PageDom("T", <<"a">>, es, <<>>, MaxCenterY) :
        es \in UNION {{<<ButtonAt(1), e, InputAt(3)>>, <<e, InputAt(1), ButtonAt(3)>>,
                       <<InputAt(1), ButtonAt(3), e>>} : e \in OddElems}}
    \cup {PageDom("T", <<"a">>, <<>>, <<Failing(LinkTo(1), read), LinkTo(2)>>, 0) :
            read \in Reads}

ParseInputs ==
    {<<[text_chunk_size |-> c, links_chunk_size |-> c, parse_item_size |-> c], p>> :
        c \in 1..MaxChunk, p \in TextPages \cup ElemPages \cup LinkPages \cup OddPages}
    \cup {<<TestCfg, p>> : p \in {TestTextPage, TestButtonsPage, TestEmptyPage, TestLinksPage}}

InitParse ==
    /\ \E in \in ParseInputs : cfg = in[1] /\ dom = in[2]
    /\ page_url \in NavUrls
    /\ InitManager
    /\ task = NoTask

NextParse ==
    \/ GetNextText
    \/ GetNextButtons
    \/ GetNextLinks
    \/ agent_node

SpecParse == InitParse /\ [][NextParse]_vars

----------------------------------------------------------------------------
(* The task loop over the browser: tasks given one after the other, each run
   by process_message, the tools called only from the tools node *)

NextTask ==
    \/ process_message
    \/ start_new_session
    \/ handle_exit
    \/ AgentStep
    \/ AgentRaises
    \/ ToolCall
    \/ DriverFails
    \/ ToolsStep
    \/ ToolsRaises
    \/ CheckCompletionStep

SpecTask == Init /\ [][NextTask]_vars

\* the task loop with an agent that reads the buttons and clicks, on the page
\* the browser starts with
LoopTools == {"click_button", "get_page_buttons_next_item"}

LoopAgentStep == AgentAnswers(LoopTools)

LoopToolCall ==
    /\ task.phase = "tools"
    /\ \/ task.tool_calls = <<"click_button">> /\ \E id \in 0..MaxIdArg : ClickButton(id)
       \/ task.tool_calls = <<"get_page_buttons_next_item">> /\ GetNextButtons

NextLoop ==
    \/ process_message
    \/ start_new_session
    \/ LoopAgentStep
    \/ AgentRaises
    \/ LoopToolCall
    \/ DriverFails
    \/ ToolsStep
    \/ ToolsRaises
    \/ CheckCompletionStep

\* every call of the LLM and of a tool returns or raises, and the loop of
\* process_message goes on to the next event
SpecTaskLive ==
    /\ Init
    /\ [][NextLoop]_vars
    /\ WF_vars(LoopAgentStep \/ AgentRaises)
    /\ WF_vars(LoopToolCall \/ DriverFails)
    /\ WF_vars(ToolsStep \/ ToolsRaises)
    /\ WF_vars(CheckCompletionStep)

----------------------------------------------------------------------------
(* The arguments of the tools: the url of navigate, the key of press_key *)

UpperCase == <<"A", "B", "C", "D", "E", "F", "G", "H", "I", "J", "K", "L", "M", "N", "O", "P", "Q", "R", "S", "T", "U", "V", "W", "X", "Y", "Z">>
LowerCase == <<"a", "b", "c", "d", "e", "f", "g", "h", "i", "j", "k", "l", "m", "n", "o", "p", "q", "r", "s", "t", "u", "v", "w", "x", "y", "z">>

\* str.lower, on the letters A-Z
lower(s) ==
    [i \in 1..Len(s) |->
        IF \E n \in 1..26 : UpperCase[n] = s[i]
        THEN LowerCase[CHOOSE n \in 1..26 : UpperCase[n] = s[i]]
        ELSE s[i]]

\* str.startswith with a tuple of prefixes
startswith(s, prefixes) ==
    \E prefix \in prefixes : Len(s) >= Len(prefix) /\ SubSeq(s, 1, Len(prefix)) = prefix

Http == <<"h", "t", "t", "p", ":", "/", "/">>
Https == <<"h", "t", "t", "p", "s", ":", "/", "/">>

with_protocol_HttpsOnly(url) ==
    IF ~startswith(url, {Https}) THEN Https \o url ELSE url

\* _navigate: "Ensure URL has protocol"
with_protocol(url) ==
    IF ~startswith(url, {Http, Https}) THEN Https \o url ELSE url

\* tools/press_key.py KEY_MAPPING
KEY_MAPPING ==
    (<<"e", "n", "t", "e", "r">> :> <<"E", "n", "t", "e", "r">>) @@
    (<<"t", "a", "b">> :> <<"T", "a", "b">>) @@
    (<<"e", "s", "c", "a", "p", "e">> :> <<"E", "s", "c", "a", "p", "e">>) @@
    (<<"e", "s", "c">> :> <<"E", "s", "c", "a", "p", "e">>) @@
    (<<"b", "a", "c", "k", "s", "p", "a", "c", "e">> :> <<"B", "a", "c", "k", "s", "p", "a", "c", "e">>) @@
    (<<"d", "e", "l", "e", "t", "e">> :> <<"D", "e", "l", "e", "t", "e">>) @@
    (<<"a", "r", "r", "o", "w", "u", "p">> :> <<"A", "r", "r", "o", "w", "U", "p">>) @@
    (<<"a", "r", "r", "o", "w", "d", "o", "w", "n">> :> <<"A", "r", "r", "o", "w", "D", "o", "w", "n">>) @@
    (<<"a", "r", "r", "o", "w", "l", "e", "f", "t">> :> <<"A", "r", "r", "o", "w", "L", "e", "f", "t">>) @@
    (<<"a", "r", "r", "o", "w", "r", "i", "g", "h", "t">> :> <<"A", "r", "r", "o", "w", "R", "i", "g", "h", "t">>) @@
    (<<"u", "p">> :> <<"A", "r", "r", "o", "w", "U", "p">>) @@
    (<<"d", "o", "w", "n">> :> <<"A", "r", "r", "o", "w", "D", "o", "w", "n">>) @@
    (<<"l", "e", "f", "t">> :> <<"A", "r", "r", "o", "w", "L", "e", "f", "t">>) @@
    (<<"r", "i", "g", "h", "t">> :> <<"A", "r", "r", "o", "w", "R", "i", "g", "h", "t">>) @@
    (<<"s", "p", "a", "c", "e">> :> <<" ">>) @@
    (<<"h", "o", "m", "e">> :> <<"H", "o", "m", "e">>) @@
    (<<"e", "n", "d">> :> <<"E", "n", "d">>) @@
    (<<"p", "a", "g", "e", "u", "p">> :> <<"P", "a", "g", "e", "U", "p">>) @@
    (<<"p", "a", "g", "e", "d", "o", "w", "n">> :> <<"P", "a", "g", "e", "D", "o", "w", "n">>)

normalized_key_CaseSensitive(key) ==
    IF key \in DOMAIN KEY_MAPPING THEN KEY_MAPPING[key] ELSE key

\* press_key: normalized_key = KEY_MAPPING.get(key.lower(), key)
normalized_key(key) ==
    IF lower(key) \in DOMAIN KEY_MAPPING THEN KEY_MAPPING[lower(key)] ELSE key

\* the urls the agent gives to navigate: with a protocol, with part of one,
\* with one in other letters, with none
UrlPrefixes == {<<>>, <<"h", "t", "t", "p", ":", "/", "/">>, <<"h", "t", "t", "p", "s", ":", "/", "/">>, <<"h", "t", "t", "p", ":", "/">>, <<"h", "t", "t", "p", "s", ":", "/">>, <<"h", "t", "t", "p">>, <<"h", "t", "t", "p", "s">>, <<"H", "T", "T", "P", ":", "/", "/">>, <<"H", "t", "t", "p", "s", ":", "/", "/">>, <<"f", "t", "p", ":", "/", "/">>, <<"/", "/">>, <<"w", "w", "w", ".">>, <<" ", "h", "t", "t", "p", "s", ":", "/", "/">>}
UrlRests == {<<>>, <<"a">>, <<"a", ".", "b">>, <<"a", "/", "c">>, <<"h", "t", "t", "p", ":", "/", "/", "a">>}
UrlArgs == {prefix \o rest : prefix \in UrlPrefixes, rest \in UrlRests}

\* an alias in the letters the agent may write it in
Capitalized(s) ==
    [i \in 1..Len(s) |->
        IF i = 1 /\ \E n \in 1..26 : LowerCase[n] = s[i]
        THEN UpperCase[CHOOSE n \in 1..26 : LowerCase[n] = s[i]]
        ELSE s[i]]

Upper(s) ==
    [i \in 1..Len(s) |->
        IF \E n \in 1..26 : LowerCase[n] = s[i]
        THEN UpperCase[CHOOSE n \in 1..26 : LowerCase[n] = s[i]]
        ELSE s[i]]

\* the keys the agent gives to press_key: the aliases in three spellings, the
\* names of the driver, and names the table does not hold
KeyArgs ==
    DOMAIN KEY_MAPPING
    \cup {Capitalized(key) : key \in DOMAIN KEY_MAPPING}
    \cup {Upper(key) : key \in DOMAIN KEY_MAPPING}
    \cup {KEY_MAPPING[key] : key \in DOMAIN KEY_MAPPING}
    \cup {<<"a">>, <<"A">>, <<"F", "5">>, <<"S", "h", "i", "f", "t">>, <<"C", "o", "n", "t", "r", "o", "l", "+", "A">>, <<"E", "s", "c", " ">>, <<"e", "n", "t", "r">>, <<"E", "N", "T", "E", "R", " ">>, <<"1">>}

\* what a tool made of its argument: arg as given, passed as handed to the
\* driver, calls the number of calls of the tool in a row
Passed(tool, arg, passed, calls) ==
    [tool |-> tool, arg |-> arg, passed |-> passed, calls |-> calls]

\* _navigate(url): browser_manager.navigate gets the url with a protocol
NavigateUrl ==
    /\ result = NoResult
    /\ \E url \in UrlArgs : result' = Passed("navigate", url, with_protocol(url), 1)
    /\ UNCHANGED <<browserVars, task, textCache, buttonsCache, linksCache>>

\* press_key(key): page.keyboard.press gets the normalized key
PressKeyNamed ==
    /\ result = NoResult
    /\ \E key \in KeyArgs : result' = Passed("press_key", key, normalized_key(key), 1)
    /\ UNCHANGED <<browserVars, task, textCache, buttonsCache, linksCache>>

\* the agent calls the tool again with what the tool reported it had used
CalledAgain ==
    /\ result # NoResult
    /\ result.calls = 1
    /\ result' = Passed(result.tool, result.passed,
                        IF result.tool = "navigate" THEN with_protocol(result.passed)
                        ELSE normalized_key(result.passed), 2)
    /\ UNCHANGED <<browserVars, task, textCache, buttonsCache, linksCache>>

\* the decision maker has the answer and the next call may come
Answered ==
    /\ result # NoResult
    /\ result' = NoResult
    /\ UNCHANGED <<browserVars, task, textCache, buttonsCache, linksCache>>

NextArgs ==
    \/ NavigateUrl
    \/ PressKeyNamed
    \/ CalledAgain
    \/ Answered

SpecArgs == Init /\ [][NextArgs]_vars

----------------------------------------------------------------------------
(* The tools node with the tool calls of one answer: ToolNode(tools) awaits the
   coroutines of all of them together, and a coroutine gives way to the others
   where it awaits the driver. get_next_page_*_item awaits only in the parser *)

GetNextTools == {"get_page_text_next_item", "get_page_buttons_next_item"}

\* the most tool calls of one answer
MaxCalls == 2

\* the coroutine of a tool call: pc "ready" before it ran, "parsing" while it
\* awaits the parser, "done" when it returned item; current_url is the local
\* of get_next_page_*_item, url the local of parse_page_*_items
Coroutine(tool) ==
    [tool |-> tool, pc |-> "ready", current_url |-> NoUrl, url |-> NoUrl, item |-> NoItem,
     rescanned |-> FALSE]

\* the tools node takes the tool calls of the answer and starts their coroutines
ToolNodeGathers ==
    /\ result = NoResult
    /\ task.gather = <<>>
    /\ \E n \in 1..MaxCalls : \E calls \in [1..n -> GetNextTools] :
          task' = [task EXCEPT !.gather = [i \in 1..n |-> Coroutine(calls[i])]]
    /\ UNCHANGED <<browserVars, result>>

\* the coroutines start in the order of the tool calls
MayBegin(i, tool) ==
    /\ i \in DOMAIN task.gather
    /\ task.gather[i].tool = tool
    /\ task.gather[i].pc = "ready"
    /\ \A j \in 1..(i - 1) : task.gather[j].pc # "ready"

MayEnd(i, tool) ==
    /\ i \in DOMAIN task.gather
    /\ task.gather[i].tool = tool
    /\ task.gather[i].pc = "parsing"

\* the coroutine at "await parser.parse_page_*_items()": both URLs are read
\* before the first await of the parser
Suspended(c) ==
    [c EXCEPT !.pc = "parsing", !.current_url = page_url, !.url = page_url,
              !.rescanned = TRUE]

\* the coroutine returned item
Returned(c, item) == [c EXCEPT !.pc = "done", !.item = item]

ScannedTextUrlReadLate(c, d) == parse_page_text_items(d, page_url, cfg.text_chunk_size)

\* what the parser gives the coroutine: the page as it is when the parser reads
\* it, under the URL the parser read when it was called
ScannedText(c, d) == parse_page_text_items(d, c.url, cfg.text_chunk_size)

ScannedButtons(c, d) == parse_page_buttons_items(d, c.url, cfg.parse_item_size)

\* get_next_page_text_item up to the await, or to its return from the cache
BeginText(i) ==
    /\ MayBegin(i, "get_page_text_next_item")
    /\ LET c == task.gather[i]
           current_url == page_url
           item == IF current_text_index < Len(text_items)
                   THEN Some(text_items[current_text_index + 1]) ELSE NoItem
       IN IF NeedsRescan(current_url, last_text_parsed_url, text_items)
          THEN /\ task' = [task EXCEPT !.gather[i] = Suspended(c)]
               /\ UNCHANGED <<textCache, served>>
          ELSE /\ task' = [task EXCEPT !.gather[i] =
                              Returned([c EXCEPT !.current_url = current_url], item)]
               /\ current_text_index' = Advanced(current_text_index, text_items)
               /\ served' = [served EXCEPT !["text"] = ServedNext(@, item)]
               /\ UNCHANGED <<text_items, last_text_parsed_url>>
    /\ UNCHANGED <<cfg, page_url, dom, buttonsCache, linksCache, result>>

\* get_next_page_text_item from the return of the parser to its own return
EndText(i) ==
    /\ MayEnd(i, "get_page_text_next_item")
    /\ LET c == task.gather[i]
           items == ScannedText(c, dom)
           item == IF 0 < Len(items) THEN Some(items[1]) ELSE NoItem
       IN /\ text_items' = items
          /\ last_text_parsed_url' = c.current_url
          /\ current_text_index' = Advanced(0, items)
          /\ task' = [task EXCEPT !.gather[i] = Returned(c, item)]
          /\ served' = [served EXCEPT !["text"] = ServedNext(@, item)]
    /\ UNCHANGED <<cfg, page_url, dom, buttonsCache, linksCache, result>>

\* get_next_page_buttons_item up to the await, or to its return from the cache
BeginButtons(i) ==
    /\ MayBegin(i, "get_page_buttons_next_item")
    /\ LET c == task.gather[i]
           current_url == page_url
           item == IF current_buttons_index < Len(buttons_items)
                   THEN Some(buttons_items[current_buttons_index + 1]) ELSE NoItem
       IN IF NeedsRescan(current_url, last_buttons_parsed_url, buttons_items)
          THEN /\ task' = [task EXCEPT !.gather[i] = Suspended(c)]
               /\ UNCHANGED <<buttonsCache, served>>
          ELSE /\ task' = [task EXCEPT !.gather[i] =
                              Returned([c EXCEPT !.current_url = current_url], item)]
               /\ current_buttons_index' = Advanced(current_buttons_index, buttons_items)
               /\ served' = [served EXCEPT !["buttons"] = ServedNext(@, item)]
               /\ UNCHANGED <<buttons_items, last_buttons_parsed_url, buttons_internal,
                              inputs_internal, retired>>
    /\ UNCHANGED <<cfg, page_url, dom, textCache, linksCache, result>>

\* get_next_page_buttons_item from the return of the parser to its own return
EndButtons(i) ==
    /\ MayEnd(i, "get_page_buttons_next_item")
    /\ LET c == task.gather[i]
           parsed == ScannedButtons(c, dom)
           item == IF 0 < Len(parsed.items) THEN Some(parsed.items[1]) ELSE NoItem
       IN /\ buttons_internal' = StoreById(parsed.buttons_internal)
          /\ inputs_internal' = StoreById(parsed.inputs_internal)
          /\ buttons_items' = parsed.items
          /\ last_buttons_parsed_url' = c.current_url
          /\ current_buttons_index' = Advanced(0, parsed.items)
          /\ task' = [task EXCEPT !.gather[i] = Returned(c, item)]
          /\ served' = [served EXCEPT !["buttons"] = ServedNext(@, item)]
    /\ UNCHANGED <<cfg, page_url, dom, textCache, linksCache, retired, result>>

\* every coroutine has returned and the tools node hands the answers on
ToolNodeReturns ==
    /\ task.gather # <<>>
    /\ \A i \in DOMAIN task.gather : task.gather[i].pc = "done"
    /\ task' = [task EXCEPT !.gather = <<>>, !.moved = FALSE]
    /\ UNCHANGED <<browserVars, result>>

\* the page navigates or rewrites itself while a coroutine awaits the parser
PageMoves ==
    /\ \E i \in DOMAIN task.gather : task.gather[i].pc = "parsing"
    /\ \E u \in Urls, d \in Doms :
          /\ <<u, d>> # <<page_url, dom>>
          /\ page_url' = u
          /\ dom' = d
    /\ task' = [task EXCEPT !.moved = TRUE]
    /\ UNCHANGED <<cfg, textCache, buttonsCache, linksCache, result>>
    /\ TrackServed(FALSE)

NextGather ==
    \/ ToolNodeGathers
    \/ \E i \in 1..MaxCalls : BeginText(i)
    \/ \E i \in 1..MaxCalls : EndText(i)
    \/ \E i \in 1..MaxCalls : BeginButtons(i)
    \/ \E i \in 1..MaxCalls : EndButtons(i)
    \/ ToolNodeReturns
    \/ PageMoves

SpecGather == Init /\ [][NextGather]_vars

----------------------------------------------------------------------------
(* Properties *)

MutatingTools == {"navigate", "go_back", "click_button", "type_text", "fill_input", "press_key"}

TextCacheInvalid == NeedsRescan(page_url, last_text_parsed_url, text_items)
ButtonsCacheInvalid == NeedsRescan(page_url, last_buttons_parsed_url, buttons_items)
LinksCacheInvalid == NeedsRescan(page_url, last_links_parsed_url, links_items)

\* C1: right after a mutating tool has completed successfully every cache is
\* invalid, so that the next get-next of every kind materializes the page
\* afresh and returns chunk 0 (get-next does so exactly when its cache is
\* invalid: a valid cache has its cursor past chunk 0).
C1_MutationInvalidatesEveryCache ==
    (result.tool \in MutatingTools /\ result.status = "ok")
        => (TextCacheInvalid /\ ButtonsCacheInvalid /\ LinksCacheInvalid)

\* C2: whenever the buttons cache is invalid, click_button, type_text and
\* fill_input end as ElementNotFoundError with timeout 0 and without any
\* driver operation, whatever id they are given.
C2_InvalidCacheResolvesNoId ==
    [][(ButtonsCacheInvalid /\ result'.tool \in {"click_button", "type_text", "fill_input"})
          => (result'.status = "ElementNotFoundError" /\ result'.timeout = 0
              /\ result'.driver = <<>>)]_vars

\* C3: an id that was in the registry when the registry was reset is never a
\* key of the registry again.
C3_RetiredIdNeverResolves ==
    retired \cap (DOMAIN buttons_internal \cup DOMAIN inputs_internal) = {}

ItemsOf(k) ==
    CASE k = "text"    -> text_items
      [] k = "buttons" -> buttons_items
      [] k = "links"   -> links_items

GetNextTool(k) ==
    CASE k = "text"    -> "get_page_text_next_item"
      [] k = "buttons" -> "get_page_buttons_next_item"
      [] k = "links"   -> "get_page_links_next_item"

\* C4: for each kind, the get-next calls made from an invalid cache without a
\* URL change or reset in between have returned the item ids 0, 1, 2, ... in
\* this order, never more than total_items of them; the call that follows the
\* last chunk returns None with the "All ... have been retrieved" message
\* and status ok, and None is returned only then.
C4_ChunksOnceInOrderThenExhaustion ==
    \A k \in Kinds :
        served[k].from_invalid =>
            /\ Len(served[k].ids) <= Len(ItemsOf(k))
            /\ \A i \in 1..Len(served[k].ids) : served[k].ids[i] = i - 1
            /\ \A i \in 1..Len(ItemsOf(k)) :
                  /\ ItemsOf(k)[i].item_id = i - 1
                  /\ ItemsOf(k)[i].total_items = Len(ItemsOf(k))
            /\ result.tool = GetNextTool(k) =>
                  /\ result.status = "ok"
                  /\ ItemsOf(k) # <<>>
                  /\ IF result.item = NoItem
                     THEN Len(served[k].ids) = Len(ItemsOf(k))
                     ELSE /\ result.item[1] = ItemsOf(k)[Len(served[k].ids)]
                          /\ result.rescanned <=> Len(served[k].ids) = 1

C4_Witness ==
    /\ served["text"].from_invalid
    /\ served["text"].ids = <<0, 1>>
    /\ result.tool = "get_page_text_next_item"
    /\ result.item = NoItem
    /\ result.message = "All text chunks have been retrieved."

\* the ids of the buttons / inputs exposed in chunk i of the buttons cache
ChunkButtonIds(i) ==
    {buttons_items[i].buttons[j].id : j \in 1..Len(buttons_items[i].buttons)}
ChunkInputIds(i) ==
    {buttons_items[i].inputs[j].id : j \in 1..Len(buttons_items[i].inputs)}

\* the chunks that expose a button / an input id
ButtonChunks(id) == {i \in 1..Len(buttons_items) : id \in ChunkButtonIds(i)}
InputChunks(id) == {i \in 1..Len(buttons_items) : id \in ChunkInputIds(i)}

ButtonY(id) == PosY(buttons_internal[id].position)
InputY(id) == PosY(inputs_internal[id].position)

\* C5: every registered button and every registered input is exposed in
\* exactly one chunk of the materialization.
C5_EveryElementInExactlyOneBand ==
    buttons_items # <<>> =>
        /\ \A id \in DOMAIN buttons_internal : Cardinality(ButtonChunks(id)) = 1
        /\ \A id \in DOMAIN inputs_internal : Cardinality(InputChunks(id)) = 1

\* C6 as stated: an element with Y = k*H, k >= 1, is in band k-1, which is
\* chunk k of the sequence.
C6_BoundaryInUpperBand ==
    buttons_items # <<>> =>
        \A k \in 1..Len(buttons_items) :
            /\ \A id \in DOMAIN buttons_internal :
                  ButtonY(id) = k * cfg.parse_item_size => k \in ButtonChunks(id)
            /\ \A id \in DOMAIN inputs_internal :
                  InputY(id) = k * cfg.parse_item_size => k \in InputChunks(id)

\* C6: an element with Y = k*H, k >= 1, is never in band k-1; it is in band k
\* (chunk k+1) and in no other when that band is emitted, and in no band at
\* all when it is not (k*H is then the largest Y).
C6_BoundaryInLowerBand ==
    buttons_items # <<>> =>
        \A k \in 1..Len(buttons_items) :
            /\ \A id \in DOMAIN buttons_internal :
                  ButtonY(id) = k * cfg.parse_item_size =>
                     ButtonChunks(id) = IF k < Len(buttons_items) THEN {k + 1} ELSE {}
            /\ \A id \in DOMAIN inputs_internal :
                  InputY(id) = k * cfg.parse_item_size =>
                     InputChunks(id) = IF k < Len(buttons_items) THEN {k + 1} ELSE {}

C6_Witness ==
    /\ buttons_items # <<>>
    /\ \E k \in 1..Len(buttons_items) :
          /\ \E id \in DOMAIN buttons_internal :
                ButtonY(id) = k * cfg.parse_item_size /\ ButtonChunks(id) = {k + 1}
          /\ \E id \in DOMAIN inputs_internal :
                InputY(id) = Len(buttons_items) * cfg.parse_item_size /\ InputChunks(id) = {}

\* the maxY of the claim: the largest registered Y, or the scroll height of
\* the page when no registered element has a positive Y
RegisteredYs ==
    {ButtonY(id) : id \in DOMAIN buttons_internal} \cup {InputY(id) : id \in DOMAIN inputs_internal}
LargestY == CHOOSE y \in RegisteredYs \cup {0} : \A z \in RegisteredYs \cup {0} : z <= y
PartitionedMaxY == IF LargestY = 0 THEN dom.scrollHeight ELSE LargestY

\* chunk i holds exactly the registered elements with Y in [(i-1)*H, i*H), once each
ChunkIsBand(i) ==
    LET y_start == (i - 1) * cfg.parse_item_size
        y_end == i * cfg.parse_item_size
    IN /\ buttons_items[i].item_id = i - 1
       /\ ChunkButtonIds(i) =
             {id \in DOMAIN buttons_internal : y_start <= ButtonY(id) /\ ButtonY(id) < y_end}
       /\ ChunkInputIds(i) =
             {id \in DOMAIN inputs_internal : y_start <= InputY(id) /\ InputY(id) < y_end}
       /\ Len(buttons_items[i].buttons) = Cardinality(ChunkButtonIds(i))
       /\ Len(buttons_items[i].inputs) = Cardinality(ChunkInputIds(i))

\* the Ys of the buttons of chunk i
ChunkButtonYs(i) ==
    {PosY(buttons_items[i].buttons[j].position) : j \in 1..Len(buttons_items[i].buttons)}

\* C7 as stated: ceil(maxY / H) bands, band i holding the elements of [i*H, (i+1)*H).
C7_BandCountIsCeil ==
    buttons_items # <<>> =>
        /\ Len(buttons_items) = CeilDiv(PartitionedMaxY, cfg.parse_item_size)
        /\ \A i \in 1..Len(buttons_items) : ChunkIsBand(i)

\* C7: when maxY > 0 there are ceil(maxY / H) chunks, numbered from 0 without
\* a gap, and chunk i holds exactly the registered buttons and inputs with Y
\* in [i*H, (i+1)*H), empty bands included; when maxY = 0 there is one chunk
\* and it holds nothing. Buttons at Y = 200, 800, 1200, 1800, 2200 with
\* H = 1000 give three chunks holding {200, 800}, {1200, 1800}, {2200}.
C7_BandsPartitionByHeight ==
    buttons_items # <<>> =>
        /\ PartitionedMaxY > 0 =>
              /\ Len(buttons_items) = CeilDiv(PartitionedMaxY, cfg.parse_item_size)
              /\ \A i \in 1..Len(buttons_items) : ChunkIsBand(i)
        /\ PartitionedMaxY = 0 =>
              /\ Len(buttons_items) = 1
              /\ buttons_items[1].item_id = 0
              /\ buttons_items[1].buttons = <<>>
              /\ buttons_items[1].inputs = <<>>
        /\ (cfg.parse_item_size = 1000 /\ RegisteredYs = Range(TestButtonYs)) =>
              /\ Len(buttons_items) = 3
              /\ ChunkButtonYs(1) = {200, 800}
              /\ ChunkButtonYs(2) = {1200, 1800}
              /\ ChunkButtonYs(3) = {2200}

C7_Witness ==
    /\ cfg.parse_item_size = 1000
    /\ Len(buttons_items) = 3
    /\ ChunkButtonYs(2) = {1200, 1800}

\* a band without elements above a band with elements
C7_WitnessEmptyBand ==
    /\ Len(buttons_items) >= 2
    /\ ChunkButtonIds(1) \cup ChunkInputIds(1) = {}
    /\ ChunkButtonIds(2) \cup ChunkInputIds(2) # {}

\* the ids exposed by all chunks of the buttons cache, in order
ExposedIds ==
    Flatten([i \in 1..Len(buttons_items) |->
               [j \in 1..Len(buttons_items[i].buttons) |-> buttons_items[i].buttons[j].id]
               \o [j \in 1..Len(buttons_items[i].inputs) |-> buttons_items[i].inputs[j].id]])

NoRepeat(s) == \A a \in 1..Len(s) : \A b \in 1..Len(s) : a # b => s[a] # s[b]

\* C8: no id is registered both for a button and for an input; each entry is
\* registered under its own id; the ids of the buttons are below the ids of
\* the inputs (one counter, buttons first); no id is exposed twice.
C8_IdsDistinctAcrossKinds ==
    /\ DOMAIN buttons_internal \cap DOMAIN inputs_internal = {}
    /\ \A id \in DOMAIN buttons_internal : buttons_internal[id].id = id
    /\ \A id \in DOMAIN inputs_internal : inputs_internal[id].id = id
    /\ \A b \in DOMAIN buttons_internal : \A i \in DOMAIN inputs_internal : b < i
    /\ NoRepeat(ExposedIds)

C8_Witness ==
    /\ Cardinality(DOMAIN buttons_internal) >= 2
    /\ DOMAIN inputs_internal # {}
    /\ Len(ExposedIds) >= 3

SameButton(view, entry) ==
    /\ view.id = entry.id
    /\ view.text = entry.text
    /\ view.position = entry.position
    /\ view.parent_text = entry.parent_text

SameInput(view, entry) ==
    /\ view.id = entry.id
    /\ view.input_type = entry.input_type
    /\ view.name = entry.name
    /\ view.placeholder = entry.placeholder
    /\ view.position = entry.position
    /\ view.parent_text = entry.parent_text

\* every view of the chunk resolves to a registry entry with the same metadata
ChunkResolves(chunk) ==
    /\ \A j \in 1..Len(chunk.buttons) :
          /\ get_button_by_id(chunk.buttons[j].id) # <<>>
          /\ SameButton(chunk.buttons[j], get_button_by_id(chunk.buttons[j].id)[1])
    /\ \A j \in 1..Len(chunk.inputs) :
          /\ get_input_by_id(chunk.inputs[j].id) # <<>>
          /\ SameInput(chunk.inputs[j], get_input_by_id(chunk.inputs[j].id)[1])

\* C9: the chunk get-next has just returned, and every chunk of the buttons
\* cache as long as the cache holds it, exposes only ids that resolve in the
\* registry, each to an entry with the metadata of the exposed view.
C9_ChunkIdsResolveWithSameMetadata ==
    /\ \A i \in 1..Len(buttons_items) : ChunkResolves(buttons_items[i])
    /\ (result.tool = "get_page_buttons_next_item" /\ result.item # NoItem)
          => ChunkResolves(result.item[1])

C9_Witness ==
    /\ result.tool = "get_page_buttons_next_item"
    /\ result.item # NoItem
    /\ result.item[1].inputs # <<>>
    /\ \E i \in 1..Len(buttons_items) : buttons_items[i].buttons # <<>>

\* C10: the text of length L after trimming gives max(1, ceil(L / C)) chunks;
\* 2100 characters with C = 700 give 3 chunks of 700 characters.
C10_TextChunkCount ==
    text_items # <<>> =>
        LET L == Len(Strip(dom.text))
            C == cfg.text_chunk_size
        IN /\ Len(text_items) = Max(1, CeilDiv(L, C))
           /\ (L = 2100 /\ C = 700) =>
                 /\ Len(text_items) = 3
                 /\ \A i \in 1..3 : Len(text_items[i].text_chunk) = 700

C10_Witness ==
    /\ cfg.text_chunk_size = 700
    /\ Len(text_items) = 3
    /\ Len(text_items[3].text_chunk) = 700

\* a text whose length is not a multiple of the chunk size
C10_WitnessRemainder ==
    /\ Len(text_items) = 2
    /\ Len(Strip(dom.text)) = 3
    /\ cfg.text_chunk_size = 2

\* the text_chunk payloads of the text cache, in item_id order
TextChunks == [i \in 1..Len(text_items) |-> text_items[i].text_chunk]

\* C11: the text_chunk payloads concatenated in item_id order are the
\* extracted page text, character for character; every chunk but the last has
\* exactly C characters and the last has between 1 and C when the text is
\* not empty.
C11_ChunksReconstructText ==
    text_items # <<>> =>
        LET full_text == get_visible_text(dom)
            C == cfg.text_chunk_size
            n == Len(text_items)
        IN /\ Flatten(TextChunks) = full_text
           /\ \A i \in 1..(n - 1) : Len(TextChunks[i]) = C
           /\ full_text # <<>> => (1 <= Len(TextChunks[n]) /\ Len(TextChunks[n]) <= C)

\* a text with a blank inside, cut into a full chunk and a shorter last chunk
C11_Witness ==
    /\ Len(text_items) = 2
    /\ cfg.text_chunk_size = 2
    /\ Flatten(TextChunks) = <<"a", " ", "a">>
    /\ result.tool = "get_page_text_next_item"


\* the <a href> elements extract_links is to report: visible, readable, href not empty
VisibleLinks(d) ==
    SelectSeq(d.links, LAMBDA a : /\ a.err \notin {"is_visible", "text_content", "get_attribute"}
                                  /\ a.vis /\ a.href # <<>>)

\* the links of the links cache, chunk after chunk
CachedLinks == Flatten([i \in 1..Len(links_items) |-> links_items[i].links])

\* C12: a page with L visible links gives max(1, ceil(L / C)) links chunks
\* that hold the L links once each in document order, C in every chunk but
\* the last and L mod C (or C) in the last; 50 links with C = 20 give chunks
\* of 20, 20 and 10 links.
C12_LinksChunkedInOrder ==
    links_items # <<>> =>
        LET L == Len(VisibleLinks(dom))
            C == cfg.links_chunk_size
            n == Len(links_items)
        IN /\ n = Max(1, CeilDiv(L, C))
           /\ Len(CachedLinks) = L
           /\ \A i \in 1..Len(CachedLinks) :
                 CachedLinks[i].url = ResolveHref(VisibleLinks(dom)[i].href[1], page_url)
           /\ \A i \in 1..(n - 1) : Len(links_items[i].links) = C
           /\ L > 0 => Len(links_items[n].links) = (IF L % C = 0 THEN C ELSE L % C)
           /\ (L = 50 /\ C = 20) =>
                 /\ n = 3
                 /\ Len(links_items[1].links) = 20
                 /\ Len(links_items[2].links) = 20
                 /\ Len(links_items[3].links) = 10

\* C13: a link is made of text, url and parent_text alone: Link has no other
\* field (no id, position or selector), and extract_links builds every
\* visible link of the page from these three.
C13_LinkIsTextUrlParentText ==
    links_items # <<>> =>
        /\ LinkFields = {"text", "url", "parent_text"}
        /\ \A i \in 1..Len(VisibleLinks(dom)) :
              ReadLink(VisibleLinks(dom)[i], page_url) # <<>>


\* the one chunk of a materialization that found nothing
IsSingleEmptyChunk(items, payload) ==
    /\ Len(items) = 1
    /\ items[1].item_id = 0
    /\ items[1].total_items = 1
    /\ \A f \in payload : items[1][f] = <<>>

\* C14: the get-next call that materializes a kind returns a chunk, never the
\* exhaustion signal, and the cache it fills is not empty; a page without
\* text gives the single text chunk with the empty text, a page without
\* links the single links chunk with the empty list, a page without buttons
\* and inputs and of scroll height 0 the single buttons chunk with empty
\* buttons and inputs, each with item_id 0 and total_items 1.
C14_AtLeastOneChunk ==
    /\ \A k \in Kinds :
          (result.tool = GetNextTool(k) /\ result.rescanned) =>
              /\ ItemsOf(k) # <<>>
              /\ result.item = Some(ItemsOf(k)[1])
    /\ (result.tool = "get_page_text_next_item" /\ result.rescanned
           /\ get_visible_text(dom) = <<>>)
          => IsSingleEmptyChunk(text_items, {"text_chunk"})
    /\ (result.tool = "get_page_links_next_item" /\ result.rescanned
           /\ VisibleLinks(dom) = <<>>)
          => IsSingleEmptyChunk(links_items, {"links"})
    /\ (result.tool = "get_page_buttons_next_item" /\ result.rescanned
           /\ DOMAIN buttons_internal \cup DOMAIN inputs_internal = {}
           /\ dom.scrollHeight = 0)
          => IsSingleEmptyChunk(buttons_items, {"buttons", "inputs"})

\* the first get-next after a navigation to a page without text
C14_Witness ==
    /\ result.tool = "get_page_text_next_item"
    /\ result.rescanned
    /\ page_url \in NavUrls
    /\ get_visible_text(dom) = <<>>
    /\ IsSingleEmptyChunk(text_items, {"text_chunk"})
    /\ retired # {}

\* the same for links on a page whose only <a> has no href, and for buttons
C14_WitnessLinks ==
    /\ result.tool = "get_page_links_next_item"
    /\ result.rescanned
    /\ dom.links # <<>>
    /\ IsSingleEmptyChunk(links_items, {"links"})

C14_WitnessButtons ==
    /\ result.tool = "get_page_buttons_next_item"
    /\ result.rescanned
    /\ page_url \in NavUrls
    /\ IsSingleEmptyChunk(buttons_items, {"buttons", "inputs"})


\* C15: in every cache the chunks carry the item ids 0, 1, ..., n-1 in
\* sequence order and each carries total_items = n; neither a chunk of a
\* cache nor the chunk a get-next call returns carries the placeholder -1.
C15_IdsSequentialTotalsFilled ==
    \A k \in Kinds :
        /\ \A i \in 1..Len(ItemsOf(k)) :
              /\ ItemsOf(k)[i].item_id = i - 1
              /\ ItemsOf(k)[i].total_items = Len(ItemsOf(k))
              /\ ItemsOf(k)[i].total_items # TotalUnknown
        /\ (result.tool = GetNextTool(k) /\ result.item # NoItem) =>
              /\ result.item[1].total_items = Len(ItemsOf(k))
              /\ result.item[1].total_items # TotalUnknown
              /\ result.item[1] = ItemsOf(k)[result.item[1].item_id + 1]

\* text and buttons both in two chunks, the second buttons chunk just returned
C15_Witness ==
    /\ Len(text_items) = 2
    /\ Len(buttons_items) = 2
    /\ result.tool = "get_page_buttons_next_item"
    /\ result.item # NoItem
    /\ result.item[1].item_id = 1
    /\ result.item[1].total_items = 2


\* the last exception process_message caught in this task, if any
Caught(classes) == task.raised # <<>> /\ task.raised[1].class \in classes

\* C16: a ToolExecutionError raised out of the graph is answered by a failure
\* description with the reason, the proposed fix and the attempt number
\* appended to the messages of the state, and by one more dispatch of the
\* graph; a task dispatches the graph at most 1 + agent_max_retries times,
\* and the failure after agent_max_retries retries ends it with the session
\* FAILED and without another dispatch.
C16_RecoverableFailureRetriedBounded ==
    /\ task.dispatches <= 1 + agent_max_retries
    /\ task.retry_count = task.failures
    /\ task.phase # "idle" => Len(task.messages) = task.dispatches - 1
    /\ \A i \in 1..Len(task.messages) :
          /\ task.messages[i].role = "system"
          /\ task.messages[i].error_reason # NoReason
          /\ task.messages[i].proposed_fix # ""
          /\ task.messages[i].attempt = i
    /\ Caught(ToolExecutionErrors) =>
          IF task.failures <= agent_max_retries
          THEN /\ task.dispatches = task.raised[1].dispatches + 1
               /\ task.messages[Len(task.messages)].error_reason = task.raised[1].error_reason
               /\ task.messages[Len(task.messages)].proposed_fix = task.raised[1].proposed_fix
               /\ task.saved = Some(task.messages[Len(task.messages)])
          ELSE /\ task.phase = "ended"
               /\ task.status = "failed"
               /\ task.dispatches = task.raised[1].dispatches
               /\ task.saved # <<>>
               /\ task.saved[1].error_reason = task.raised[1].error_reason

\* the failure after the last retry: four failures, three descriptions, FAILED
C16_Witness ==
    /\ Caught({"ElementNotFoundError"})
    /\ task.failures = agent_max_retries + 1
    /\ Len(task.messages) = agent_max_retries
    /\ task.dispatches = agent_max_retries + 1
    /\ task.status = "failed"
    /\ task.phase = "ended"

\* a retry under way: the description is in the messages, the graph runs again
C16_WitnessRetry ==
    /\ Caught({"ElementNotFoundError"})
    /\ task.failures = 1
    /\ task.dispatches = 2
    /\ task.phase = "tools"
    /\ task.status = "active"

\* C17: the events of agent and tool steps processed in one process_message
\* call are never more than the configured maximum step count.
C17_StepsWithinMaximum == task.steps <= MaxSteps

\* C18: after an exception of a class that is no ToolExecutionError
\* (BrowserClosedError, FunctionCallFormatError, any other DomainError, any
\* other exception) the task has ended, the graph was not dispatched again,
\* the session is FAILED and the last persisted message is a system message
\* with the reason of that exception.
C18_FatalFailureEndsTask ==
    Caught({task.raised[1].class} \ ToolExecutionErrors) =>
        /\ ExceptClause(task.raised[1].class) # "ToolExecutionError"
        /\ task.phase = "ended"
        /\ task.status = "failed"
        /\ task.dispatches = task.raised[1].dispatches
        /\ task.saved # <<>>
        /\ task.saved[1].role = "system"
        /\ task.saved[1].error_reason # NoReason
        /\ task.saved[1].error_reason =
              IF task.raised[1].class \in DomainErrors
              THEN task.raised[1].error_reason
              ELSE UnknownError(task.raised[1].class).error_reason

\* a malformed decision on the retry of a task, and a tool that failed on a
\* closed window
C18_Witness ==
    /\ Caught({"FunctionCallFormatError"})
    /\ task.failures = 1
    /\ task.dispatches = 2
    /\ task.status = "failed"

C18_WitnessUnclassified ==
    /\ Caught({"UnknownError", "TargetClosedError"})
    /\ task.raised[1].tool \in {"click_button", "navigate"}
    /\ task.status = "failed"

\* C19: a navigate call that ended on the time bound of the page load ended
\* with NavigationTimeoutError, and process_message caught it in the
\* retrying except clause.
C19_NavigateTimeoutIsRecoverable ==
    /\ (result.tool = "navigate" /\ result.status # "ok" /\ result.timeout > 0)
          => result.status = "NavigationTimeoutError"
    /\ (Caught({"TimeoutError", "NavigationTimeoutError"}) /\ task.raised[1].tool = "navigate")
          => /\ task.raised[1].class = "NavigationTimeoutError"
             /\ ExceptClause(task.raised[1].class) = "ToolExecutionError"
             /\ task.status # "failed"

\* the call ended as address-not-found and touched neither page nor caches
NotFoundUntouched(tool) ==
    /\ result'.tool = tool
    /\ result'.status = "ElementNotFoundError"
    /\ result'.timeout = 0
    /\ result'.driver = <<>>
    /\ UNCHANGED <<page_url, dom, textCache, buttonsCache, linksCache>>

\* C20: click_button, type_text and fill_input called with an id that is not
\* a key of the registry end with ElementNotFoundError (timeout 0), issue no
\* driver operation and leave the page, the three caches with their cursors
\* and the registry as they were.
C20_UnknownIdIsAddressNotFound ==
    [][\A id \in 0..MaxIdArg :
          /\ (ClickButton(id) /\ id \notin DOMAIN buttons_internal)
                => NotFoundUntouched("click_button")
          /\ (TypeText(id) /\ id \notin DOMAIN inputs_internal)
                => NotFoundUntouched("type_text")
          /\ (FillInput(id) /\ id \notin DOMAIN inputs_internal)
                => NotFoundUntouched("fill_input")]_vars

\* click_button was given an id of an input while the registry holds buttons
\* and inputs and the buttons cache is part read
C20_Witness ==
    /\ result.tool = "click_button"
    /\ result.status = "ElementNotFoundError"
    /\ result.timeout = 0
    /\ DOMAIN buttons_internal # {}
    /\ DOMAIN inputs_internal # {}
    /\ current_buttons_index = 1
    /\ Len(buttons_items) = 2


\* the debug events of the task, and how many of them are of a type
DebugEvents == IF task.debug_info = <<>> THEN <<>> ELSE task.debug_info[1]

NumEvents(type) == Cardinality({i \in 1..Len(DebugEvents) : DebugEvents[i].type = type})

\* C21: the debug events of a task hold a tool_call event for every tool
\* invocation that ran and a tool_result event for every one of them.
C21_EveryInvocationTraced ==
    /\ NumEvents("tool_call") >= task.executed
    /\ NumEvents("tool_result") >= task.executed


\* C22: the url navigate hands to the browser is the url given when that
\* starts with "http://" or "https://", and "https://" followed by the url
\* given otherwise; navigate called with the url it handed over hands over
\* the same url.
C22_ProtocolPrependedWhenMissing ==
    result.tool = "navigate" =>
        /\ result.passed =
              IF \/ Len(result.arg) >= 7 /\ SubSeq(result.arg, 1, 7) = Http
                 \/ Len(result.arg) >= 8 /\ SubSeq(result.arg, 1, 8) = Https
              THEN result.arg
              ELSE Https \o result.arg
        /\ result.calls = 2 => result.passed = result.arg
        /\ with_protocol(result.passed) = result.passed

\* a url without protocol that holds one further in, and a second call
C22_Witness ==
    /\ result.tool = "navigate"
    /\ result.calls = 1
    /\ result.arg = <<"a">>
    /\ result.passed = Https \o <<"a">>

C22_WitnessKept ==
    /\ result.tool = "navigate"
    /\ result.calls = 2
    /\ result.arg = Http \o <<"a", ".", "b">>

\* C23: the key press_key hands to the driver is the table's name for the
\* key in lower case when the table holds it ("enter", "Enter" and "ENTER"
\* give Enter, "esc" Escape, "up" ArrowUp) and the key as given when not;
\* press_key called with the key it handed over hands over the same key.
C23_KeyAliasesNormalized ==
    result.tool = "press_key" =>
        /\ \A alias \in DOMAIN KEY_MAPPING :
              result.arg \in {alias, Capitalized(alias), Upper(alias)}
                  => result.passed = KEY_MAPPING[alias]
        /\ result.arg \in {<<"e", "n", "t", "e", "r">>, <<"E", "N", "T", "E", "R">>}
              => result.passed = <<"E", "n", "t", "e", "r">>
        /\ result.arg = <<"e", "s", "c">> => result.passed = <<"E", "s", "c", "a", "p", "e">>
        /\ result.arg = <<"u", "p">> => result.passed = <<"A", "r", "r", "o", "w", "U", "p">>
        /\ (\A alias \in DOMAIN KEY_MAPPING : lower(result.arg) # alias)
              => result.passed = result.arg
        /\ result.calls = 2 => result.passed = result.arg
        /\ normalized_key(result.passed) = result.passed

\* an alias in capitals, and a name that is not in the table, called twice
C23_Witness ==
    /\ result.tool = "press_key"
    /\ result.arg = <<"E", "S", "C">>
    /\ result.passed = <<"E", "s", "c", "a", "p", "e">>

C23_WitnessUnknown ==
    /\ result.tool = "press_key"
    /\ result.calls = 2
    /\ result.arg = <<"F", "5">>


\* the call of a tool found the cache populated: the chunk at the cursor and
\* the cursor one further, or the exhaustion signal and the cursor where it was
ServedFromCache(tool, items, index, index_after) ==
    /\ result'.tool = tool
    /\ result'.status = "ok"
    /\ ~result'.rescanned
    /\ IF index < Len(items)
       THEN result'.item = Some(items[index + 1]) /\ index_after = index + 1
       ELSE result'.item = NoItem /\ index_after = index

\* C24: a get-next call on a cache that holds chunks recorded for the URL of
\* the page runs no extraction and leaves the chunk sequence, the recorded
\* URL and the registry as they are; it returns the chunk at the cursor and
\* moves the cursor one further, or, with the cursor behind the last chunk,
\* returns the exhaustion signal and moves nothing.
C24_PopulatedCacheOnlyAdvances ==
    [][/\ (GetNextText /\ text_items # <<>> /\ last_text_parsed_url = page_url)
            => /\ UNCHANGED <<text_items, last_text_parsed_url>>
               /\ ServedFromCache("get_page_text_next_item", text_items,
                                  current_text_index, current_text_index')
       /\ (GetNextButtons /\ buttons_items # <<>> /\ last_buttons_parsed_url = page_url)
            => /\ UNCHANGED <<buttons_items, last_buttons_parsed_url,
                              buttons_internal, inputs_internal>>
               /\ ServedFromCache("get_page_buttons_next_item", buttons_items,
                                  current_buttons_index, current_buttons_index')
       /\ (GetNextLinks /\ links_items # <<>> /\ last_links_parsed_url = page_url)
            => /\ UNCHANGED <<links_items, last_links_parsed_url>>
               /\ ServedFromCache("get_page_links_next_item", links_items,
                                  current_links_index, current_links_index')]_vars

\* the exhaustion signal from a cache of two chunks that was not re-scanned
C24_Witness ==
    /\ result.tool = "get_page_text_next_item"
    /\ result.item = NoItem
    /\ ~result.rescanned
    /\ Len(text_items) = 2
    /\ current_text_index = 2
    /\ last_text_parsed_url = page_url

\* the second chunk of the buttons from the cache
C24_WitnessAdvance ==
    /\ result.tool = "get_page_buttons_next_item"
    /\ result.item # NoItem
    /\ ~result.rescanned
    /\ current_buttons_index = 2


\* the coroutines of the tools node that have returned a chunk
ReturnedChunk(i) ==
    /\ i \in DOMAIN task.gather
    /\ task.gather[i].pc = "done"
    /\ task.gather[i].item # NoItem

\* C25: a chunk a get-next call returned carries the URL the page had when
\* the call began, also when the page went to another URL while the parser
\* ran; and every chunk of a cache carries the URL recorded for the cache.
C25_ChunkUrlIsUrlOfTheCall ==
    /\ \A i \in 1..MaxCalls :
          ReturnedChunk(i) => task.gather[i].item[1].url = task.gather[i].current_url
    /\ \A k \in 1..Len(text_items) : text_items[k].url = last_text_parsed_url
    /\ \A k \in 1..Len(buttons_items) : buttons_items[k].url = last_buttons_parsed_url
    /\ \A k \in 1..Len(links_items) : links_items[k].url = last_links_parsed_url

\* the page went from one URL to another while the parser ran for the text
C25_Witness ==
    /\ ReturnedChunk(1)
    /\ task.gather[1].tool = "get_page_text_next_item"
    /\ task.gather[1].rescanned
    /\ task.moved
    /\ task.gather[1].current_url = "https://a"
    /\ page_url # "https://a"

\* C26: no two tool coroutines of one answer are under way at the same time,
\* and two get-next calls of one kind in one answer, on a page that stays as
\* it is, return two chunks with consecutive ids.
C26_ToolCallsOneAtATime ==
    \A i, j \in DOMAIN task.gather :
        i < j =>
            /\ ~(task.gather[i].pc = "parsing" /\ task.gather[j].pc # "ready")
            /\ (/\ ReturnedChunk(i) /\ ReturnedChunk(j)
                /\ task.gather[i].tool = task.gather[j].tool
                /\ ~task.moved)
               => task.gather[j].item[1].item_id = task.gather[i].item[1].item_id + 1

\* the second part of C26 alone: the same chunk is returned twice
C26_SameChunkTwice ==
    \E i, j \in DOMAIN task.gather :
        /\ i < j
        /\ ReturnedChunk(i) /\ ReturnedChunk(j)
        /\ task.gather[i].tool = task.gather[j].tool
        /\ ~task.moved
        /\ task.gather[j].item[1].item_id = task.gather[i].item[1].item_id
        /\ task.gather[i].item[1].total_items > 1


\* the nodes of the graph a task can be in
Running == task.phase \in {"agent", "tools", "check"}

\* C27: the tools node runs only for an answer with tool calls and
\* check_completion only for one without; after the agent node comes one of
\* the two, after the tools node the agent node again, after check_completion
\* the end with completed true, unless an exception or the step limit ends
\* the task; a run that ended by itself ended with completed true and no tool
\* call left in the last answer.
C27_GraphFollowsDecideActDone ==
    /\ [](/\ task.phase = "tools" => task.tool_calls # <<>>
          /\ task.phase = "check" => task.tool_calls = <<>>
          /\ task.completed => task.tool_calls = <<>>
          /\ task.outcome = "finished"
                => task.phase = "ended" /\ task.completed /\ task.tool_calls = <<>>)
    /\ [][/\ AgentStep
             => \/ task'.phase = IF task'.tool_calls # <<>> THEN "tools" ELSE "check"
                \/ task'.outcome = "step_limit"
          /\ ToolsStep
             => task'.phase = "agent" \/ task'.outcome = "step_limit"
          /\ ToolsRaises
             => \/ task'.phase = "agent" /\ task'.dispatches = task.dispatches + 1
                \/ task'.outcome = "failed"
          /\ CheckCompletionStep
             => task'.phase = "ended" /\ task'.completed]_vars

\* a run that ended by itself after a tool call of the task had run, and a
\* tool call that returned with the agent node next
C27_Witness ==
    /\ task.outcome = "finished"
    /\ task.completed
    /\ task.executed = 1
    /\ task.failures = 1
    /\ task.step_count = 2

C27_WitnessActThenDecide ==
    /\ task.phase = "agent"
    /\ task.returned = 1
    /\ task.step_count = 2
    /\ task.tool_calls # <<>>

\* C28: a task processes no more events than the attempts times the events
\* of an attempt, and, with every call returning or raising, a task that runs
\* comes to its end: finished, at the step limit or failed.
C28_EveryTaskTerminates ==
    /\ [](task.steps <= (agent_max_retries + 1) * (MaxSteps + 1))
    /\ [](task.phase = "ended" => task.outcome \in {"finished", "step_limit", "failed"})
    /\ (Running ~> task.phase = "ended")

\* the three ends of a task, the last after retries
C28_Witness ==
    /\ task.phase = "ended"
    /\ task.outcome = "step_limit"
    /\ task.failures = agent_max_retries
    /\ task.steps > MaxSteps


----------------------------------------------------------------------------
\* C29: when the driver reports during click_button, type_text, fill_input,
\* press_key or a get-next tool that the browser, context or page has been
\* closed, the failure that leaves the tool is BrowserClosedError, not an
\* unclassified error and not a recoverable tool failure.  (Violated: the
\* except Exception clause of the tool's body turns the driver's error into
\* UnknownError before the decorator sees it.)
C29_ClosedWindowIsBrowserClosedError ==
    (/\ result # NoResult
     /\ result.message = ClosedMessage
     /\ result.tool \in {"click_button", "type_text", "fill_input", "press_key",
                         "get_page_text_next_item", "get_page_buttons_next_item",
                         "get_page_links_next_item"})
        => result.status = "BrowserClosedError"

----------------------------------------------------------------------------
\* the last call of the driver that the tool call made
LastOp == result.driver[Len(result.driver)]

\* the three caches and the registries as reset_*_items leave them
CachesInvalidated ==
    /\ text_items = <<>> /\ current_text_index = 0 /\ last_text_parsed_url = NoUrl
    /\ buttons_items = <<>> /\ current_buttons_index = 0 /\ last_buttons_parsed_url = NoUrl
    /\ links_items = <<>> /\ current_links_index = 0 /\ last_links_parsed_url = NoUrl
    /\ buttons_internal = EmptyRegistry /\ inputs_internal = EmptyRegistry

\* C30: a network-settle (networkidle) timeout after navigate, click_button or
\* press_key is swallowed and the operation still reports success (and
\* navigate still invalidates the caches), whereas a timeout while waiting for
\* the element to become visible or while clicking it makes click_button,
\* type_text and fill_input fail with ElementNotFoundError (timeout 5)
\* surfaced to the caller.
C30_SettleTimeoutSwallowedElementTimeoutSurfaced ==
    result.driver # <<>> =>
        /\ (/\ result.tool \in {"navigate", "click_button", "press_key"}
            /\ LastOp = NetworkIdle("TimeoutError"))
               => /\ result.status = "ok"
                  /\ result.tool = "navigate" => CachesInvalidated
        /\ (/\ result.tool \in {"click_button", "type_text", "fill_input"}
            /\ LastOp.op \in {"wait_for", "click"})
               => /\ result.status = "ElementNotFoundError"
                  /\ result.timeout = 5

\* navigate reported success although the network never settled, on a page
\* whose caches were filled before
C30_Witness ==
    /\ result.tool = "navigate"
    /\ result.driver # <<>>
    /\ LastOp = NetworkIdle("TimeoutError")
    /\ result.status = "ok"
    /\ retired # {}

\* click_button failed on the click of a visible button
C30_WitnessClickTimeout ==
    /\ result.tool = "click_button"
    /\ result.driver # <<>>
    /\ LastOp.op = "click"
    /\ result.status = "ElementNotFoundError"

\* type_text failed on the wait for an input that is not visible any more
C30_WitnessInputNotVisible ==
    /\ result.tool = "type_text"
    /\ result.driver # <<>>
    /\ LastOp.op = "wait_for"
    /\ result.status = "ElementNotFoundError"

----------------------------------------------------------------------------
\* the ids of a list of entries, in the order of the list
Ids(list) == [i \in 1..Len(list) |-> list[i].id]

\* whether a read of the element raised during extract_buttons /
\* extract_inputs / extract_links, which read in this order and stop at the
\* first "continue"
ButtonReadRaised(e) ==
    \/ e.err = "is_visible"
    \/ /\ e.vis
       /\ \/ e.err = "text_content"
          \/ e.text = <<>> /\ e.err = "get_attribute"
          \/ e.err = "bounding_box"
          \/ e.box # <<>> /\ e.err = "parentElement"

InputReadRaised(e) ==
    \/ e.err = "is_visible"
    \/ /\ e.vis
       /\ \/ e.err \in {"get_attribute", "bounding_box"}
          \/ e.box # <<>> /\ e.err = "parentElement"

LinkReadRaised(a) ==
    \/ a.err = "is_visible"
    \/ /\ a.vis
       /\ \/ a.err \in {"text_content", "get_attribute"}
          \/ a.href # <<>> /\ a.err = "parentElement"

IsButton(e) == \E s \in 1..Len(ButtonSelectors) : Matches(e, ButtonSelectors[s])
IsInput(e) == \E s \in 1..Len(InputSelectors) : Matches(e, InputSelectors[s])

\* the k-th element of the page has an entry in the registry
Registered(k) ==
    \/ \E id \in DOMAIN buttons_internal :
          Resolve(dom, buttons_internal[id].element) = Some(dom.elems[k])
    \/ \E id \in DOMAIN inputs_internal :
          Resolve(dom, inputs_internal[id].element) = Some(dom.elems[k])

\* buttons and inputs: an element with a read that raised is omitted, every
\* other visible element with a box is registered
ElementsOmittedOnlyWhenUnreadable ==
    \A k \in 1..Len(dom.elems) :
        LET e == dom.elems[k]
            raised == (IsButton(e) /\ ButtonReadRaised(e)) \/ (IsInput(e) /\ InputReadRaised(e))
        IN IF raised THEN ~Registered(k)
           ELSE (e.vis /\ e.box # <<>>) => Registered(k)

\* the two lists of extract_buttons and of extract_inputs go id by id
InternalListsMatchExposed ==
    LET b == extract_buttons(dom, 0)
        i == extract_inputs(dom, b.counter)
    IN /\ Ids(b.internal) = Ids(b.external)
       /\ Ids(i.internal) = Ids(i.external)
       /\ buttons_internal = StoreById(b.internal)
       /\ inputs_internal = StoreById(i.internal)

\* links: every visible link with an href whose reads did not raise is cached
LinksOmittedOnlyWhenUnreadable ==
    Len(CachedLinks) =
        Len(SelectSeq(dom.links, LAMBDA a : ~LinkReadRaised(a) /\ a.vis /\ a.href # <<>>))

\* C31: a failure while reading a single element during extraction
\* (visibility, text, attribute, bounding box or parent lookup raising) only
\* omits that element: the extraction of buttons, inputs and links completes,
\* every other readable visible element is extracted, and the internal list
\* and the exposed list of a kind hold the same ids in the same order.
C31_UnreadableElementOnlyOmitted ==
    /\ (result.tool = "get_page_buttons_next_item" /\ result.rescanned)
          => ElementsOmittedOnlyWhenUnreadable /\ InternalListsMatchExposed
    /\ (result.tool = "get_page_links_next_item" /\ result.rescanned)
          => LinksOmittedOnlyWhenUnreadable

----------------------------------------------------------------------------
\* the ids of the registry, of buttons and inputs together
RegisteredIds == DOMAIN buttons_internal \cup DOMAIN inputs_internal

\* C32: an element that is not visible or has no bounding box is never
\* assigned an id, never enters the registry and never appears in a chunk;
\* ids are consumed only by elements that are registered, so the ids of one
\* materialization are exactly 0..N-1 with no gaps.
C32_OnlyRegisteredElementsConsumeIds ==
    /\ \A k \in 1..Len(dom.elems) :
          (~dom.elems[k].vis \/ dom.elems[k].box = <<>>) => ~Registered(k)
    /\ Range(ExposedIds) \subseteq RegisteredIds
    /\ RegisteredIds = 0..(Cardinality(RegisteredIds) - 1)
    /\ (result.tool = "get_page_buttons_next_item" /\ result.rescanned) =>
          LET b == extract_buttons(dom, 0)
              i == extract_inputs(dom, b.counter)
          IN /\ b.counter = Len(b.internal)
             /\ i.counter = Len(b.internal) + Len(i.internal)

\* a scan that passed over a hidden or boxless element and registered the
\* element before it and the element after it
C32_Witness ==
    /\ result.tool = "get_page_buttons_next_item"
    /\ result.rescanned
    /\ Len(dom.elems) = 3
    /\ ~dom.elems[2].vis \/ dom.elems[2].box = <<>>
    /\ RegisteredIds = {0, 1}

----------------------------------------------------------------------------
\* the place in the document of the element that page.locator(selector).nth(idx)
\* finds; 0 if none
ElementIndex(d, locator) ==
    LET m == SelectSeq([k \in 1..Len(d.elems) |-> k],
                       LAMBDA k : Matches(d.elems[k], locator.selector))
    IN IF locator.nth < Len(m) THEN m[locator.nth + 1] ELSE 0

\* the registry entries, of buttons and of inputs
RegistryEntries ==
    {buttons_internal[id] : id \in DOMAIN buttons_internal}
    \cup {inputs_internal[id] : id \in DOMAIN inputs_internal}

\* C33: within one materialization each page element is registered at most
\* once: no two distinct ids of the registry denote the same page element,
\* also for an element that matches more than one selector of the button
\* family or of the input family.
C33_ElementRegisteredOnce ==
    \A a \in RegistryEntries : \A b \in RegistryEntries :
        a.id # b.id => ElementIndex(dom, a.element) # ElementIndex(dom, b.element)

----------------------------------------------------------------------------
\* C34: every invocation of the LLM within a task, the second and later
\* steps of a run and the first step of a retry included, receives the
\* system prompt as the first message of its context.
C34_SystemPromptFirst ==
    task.context # <<>> => task.context[1] = "SYSTEM_PROMPT"

----------------------------------------------------------------------------
\* C35: the persisted status FAILED is terminal: once the status of a
\* session is FAILED, no later operation (a further user message, /new,
\* /exit, leaving the loop of the CLI) changes it to another status.
C35_FailedIsTerminal ==
    task.closed # <<>> =>
        (task.closed[1].was_failed => task.closed[1].status = "failed")

----------------------------------------------------------------------------
\* the step is the call of the get-next tool
GetNextCalled(tool) == result = NoResult /\ result'.tool = tool

\* C36: a get-next call of one kind leaves the chunk sequences, cursors and
\* recorded URLs of the other two kinds unchanged, and a get-next call for
\* text or links leaves the element registry unchanged; among the get-next
\* calls only a buttons/inputs re-scan replaces the registry.
C36_GetNextLeavesOtherKinds ==
    [][/\ GetNextCalled("get_page_text_next_item")
            => UNCHANGED <<buttons_items, current_buttons_index, last_buttons_parsed_url,
                           links_items, current_links_index, last_links_parsed_url,
                           buttons_internal, inputs_internal>>
       /\ GetNextCalled("get_page_links_next_item")
            => UNCHANGED <<buttons_items, current_buttons_index, last_buttons_parsed_url,
                           text_items, current_text_index, last_text_parsed_url,
                           buttons_internal, inputs_internal>>
       /\ GetNextCalled("get_page_buttons_next_item")
            => /\ UNCHANGED <<text_items, current_text_index, last_text_parsed_url,
                              links_items, current_links_index, last_links_parsed_url>>
               /\ ~result'.rescanned => UNCHANGED <<buttons_internal, inputs_internal>>]_vars

\* a re-scan of the text has just run while the buttons cache is half read,
\* the registry filled and the links cache read to its end
C36_Witness ==
    /\ result.tool = "get_page_text_next_item"
    /\ result.rescanned
    /\ Len(buttons_items) >= 2 /\ current_buttons_index = 1
    /\ DOMAIN buttons_internal # {} /\ DOMAIN inputs_internal # {}
    /\ links_items # <<>> /\ current_links_index = Len(links_items)

----------------------------------------------------------------------------
\* C37: for each kind 0 <= cursor <= number of cached chunks; a cache with
\* no chunks has cursor 0 and no recorded URL; and whenever the
\* buttons/inputs cache has no chunks the button and input registries are
\* empty.
C37_CursorWithinCache ==
    /\ current_text_index \in 0..Len(text_items)
    /\ current_buttons_index \in 0..Len(buttons_items)
    /\ current_links_index \in 0..Len(links_items)
    /\ text_items = <<>> => current_text_index = 0 /\ last_text_parsed_url = NoUrl
    /\ buttons_items = <<>> => current_buttons_index = 0 /\ last_buttons_parsed_url = NoUrl
    /\ links_items = <<>> => current_links_index = 0 /\ last_links_parsed_url = NoUrl
    /\ buttons_items = <<>> => buttons_internal = EmptyRegistry /\ inputs_internal = EmptyRegistry

\* press_key has just emptied caches that were read to their ends and a
\* registry that was filled
C37_Witness ==
    /\ result.tool = "press_key"
    /\ result.status = "ok"
    /\ text_items = <<>> /\ buttons_items = <<>> /\ links_items = <<>>
    /\ retired # {}
    /\ served.text.ids = <<>>

\* the three cursors stand behind the last chunk of caches of two chunks
C37_WitnessExhausted ==
    /\ Len(text_items) >= 2 /\ current_text_index = Len(text_items)
    /\ Len(buttons_items) >= 2 /\ current_buttons_index = Len(buttons_items)
    /\ links_items # <<>> /\ current_links_index = Len(links_items)

----------------------------------------------------------------------------
\* the calls of the driver that act on the page
ActingOps == {"click", "type", "fill", "keyboard.press"}

\* the tool call made a call of the driver that acted on the page and
\* returned, and failed on a later one
FailedAfterActing ==
    /\ result.status # "ok"
    /\ \E k \in 1..(Len(result.driver) - 1) : result.driver[k].op \in ActingOps

\* C38: if type_text, fill_input, press_key or click_button fails after the
\* driver has already acted on the page (the focusing click succeeded and
\* the typing then timed out), the three pagination caches and the registry
\* are nevertheless invalidated before the next decision, so that no chunk
\* or id from before the partial action is served afterwards.
C38_PartialActionInvalidates ==
    (/\ result.tool \in {"type_text", "fill_input", "press_key", "click_button"}
     /\ FailedAfterActing)
        => CachesInvalidated

====
